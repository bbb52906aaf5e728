--------------------------------- MODULE Freeze ---------------------------------
(***************************************************************************)
(* Freeze windows (internal/core/freeze).  A window is opened by every     *)
(* fire of its cron expression and lasts for its duration.  The schedule   *)
(* of an expression is the set of its fires; an expression that does not   *)
(* parse has none.                                                         *)
(***************************************************************************)
EXTENDS Integers, Sequences

CONSTANT MaxFireScan    \* maxFireScan: how many fires are looked at

ASSUME MaxFireScanAssumption == MaxFireScan \in Nat \ {0}

Window == [fires : SUBSET Nat, duration : Int, matches : BOOLEAN, parses : BOOLEAN]

NoFire == -1

(* Schedule.Next of the cron library: the first fire after t.  A fire after  *)
(* now and no fire at all end the scan alike.                                *)
NextFire(fires, t) ==
  IF \E f \in fires : f > t
  THEN CHOOSE f \in fires : f > t /\ \A g \in fires : g > t => f <= g
  ELSE NoFire

(* Mutant of ScanFrom: the scan goes back two units, however long the window.*)
ScanFromFixed(window, now) == now - 2

(* The oldest fire that may still freeze anything is after this instant. *)
ScanFrom(window, now) == now - window

(* The fires from there on, one after the other, up to now: after i of them, *)
(* where the scan is and which fire was the last.                            *)
Scan(fires, window, now) ==
  LET scan[i \in 0..MaxFireScan] ==
        IF i = 0 THEN [cur |-> ScanFrom(window, now), last |-> NoFire]
        ELSE LET next == NextFire(fires, scan[i - 1].cur)
             IN  IF next = NoFire \/ next > now THEN scan[i - 1]
                 ELSE [cur |-> next, last |-> next]
  IN  scan

MostRecentFire(fires, window, now) ==
  IF window <= 0 THEN NoFire ELSE Scan(fires, window, now)[MaxFireScan].last

(* ActiveFor, for the windows that match the stack.  An expression that does *)
(* not parse is an error, unless an earlier window is active; the caller     *)
(* counts an error as a freeze.                                              *)
WindowActive(w, now) ==
  LET fire == MostRecentFire(w.fires, w.duration, now)
  IN  fire # NoFire /\ now < fire + w.duration

Stops(w, now) == w.matches /\ (~w.parses \/ WindowActive(w, now))

ActiveFor(windows, now) ==
  IF \A i \in DOMAIN windows : ~Stops(windows[i], now)
  THEN "none"
  ELSE LET first == CHOOSE i \in DOMAIN windows :
                      /\ Stops(windows[i], now)
                      /\ \A j \in DOMAIN windows : Stops(windows[j], now) => i <= j
       IN  IF windows[first].parses THEN "frozen" ELSE "error"

=============================================================================
