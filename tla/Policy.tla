--------------------------------- MODULE Policy ---------------------------------
(***************************************************************************)
(* Policy hooks (internal/policy, internal/run/policy_helper.go): commands *)
(* of the engine configuration that judge the plan of a stack.  What the   *)
(* runner does with a command (found, prepared, exit) is part of the hook. *)
(***************************************************************************)
Configured ==
  [command  : BOOLEAN,                      \* a command is given
   onFail   : {"block", "warn", "omitted"},
   required : {"yes", "no", "omitted"},
   present  : BOOLEAN,                      \* the binary is on the PATH
   prepared : BOOLEAN,                      \* the child environment could be built
   exit     : {"zero", "nonzero", "killed"}]

(* Mutant of IsRequired: an omitted setting does not require the hook. *)
RequiredIfSaid(h) == h.required = "yes"

IsRequired(h) == h.required # "no"

(* HooksFromEngine: anything but warn blocks. *)
Blocking(h) == h.onFail # "warn"

Skipped(h) == ~h.command \/ (~IsRequired(h) /\ ~h.present)

(* A missing binary, a timeout and a signal count as a nonzero exit. *)
Ran(h) == h.prepared /\ h.present /\ h.exit = "zero"

RunHook(h) ==
  CASE Skipped(h)                            -> "skipped"
    [] ~Skipped(h) /\ Ran(h)                 -> "pass"
    [] ~Skipped(h) /\ ~Ran(h) /\ Blocking(h) -> "fail"
    [] OTHER                                 -> "warn"

(* All hooks run, whatever the earlier ones said; written tells whether the  *)
(* plan could be put where they read it.                                     *)
RunPolicyForStack(hooks, written) ==
  IF hooks = {} THEN "none"
  ELSE IF written /\ \A h \in hooks : RunHook(h) # "fail" THEN "passed" ELSE "failed"

=============================================================================
