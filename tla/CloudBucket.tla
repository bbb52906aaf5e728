----------------------------- MODULE CloudBucket -----------------------------
(***************************************************************************)
(* The cloud adapters (s3.Store, gcs.Store, azblob.Store): every operation *)
(* is one request, which the provider performs at once.  A provider of the *)
(* S3 kind may accept conditions and ignore them, or return no usable      *)
(* ETags; blob.CASProbe and ensureConditionalDeletes find out before       *)
(* anything depends on it.  A request may fail without an effect, or fail  *)
(* after it took effect.                                                   *)
(***************************************************************************)
EXTENDS Bucket

Store == world.store   \* [adapter, create, update, delete, etag]

(* The caller is at a step of an operation on a cloud bucket. *)
CloudAt(c, pc) == ~Local /\ cl[c].pc = pc

(* External: the version the provider reports after a write. *)
NewVersion == CASE Store.etag = "none" -> 0
                [] Store.etag = "same" -> 1
                [] OTHER               -> writes + 1

(* probeConditionalWrites on a key of its own: a second create must be       *)
(* refused, there must be an ETag, a write must change it, and the old one   *)
(* must then be refused.  Any request may fail, which decides nothing.       *)
ProbeConditionalWrites(s) ==
  {"transient"} \cup
  (IF s.create /\ s.etag \notin {"none", "same"} /\ s.update THEN {"enforced"}
                                                             ELSE {"unsupported"})

(* Mutant of Remembered: the first verdict stays. *)
RememberedAlways(v) == IF v = "transient" THEN "unsupported" ELSE v

(* CASProbe.Ensure keeps definitive verdicts only. *)
Remembered(v) == IF v = "transient" THEN "unknown" ELSE v

(* probeConditionalDeletes: two writes must have two ETags, and a delete     *)
(* with the first must be refused.  Only the S3 adapter probes.              *)
ProbeConditionalDeletes(s) ==
  {"failed", "cancelled"} \cup
  (IF s.etag = "fresh" /\ s.delete THEN {"enforced"} ELSE {"unsupported"})

(* The lock store and the audit log ask the probe before they write. *)
CloudBegin(c) ==
  /\ CloudAt(c, "begin")
  /\ Role(c) \in {"mutate", "create"}
  /\ \E v \in IF cl[c].probe = "unknown" THEN ProbeConditionalWrites(Store) ELSE {cl[c].probe} :
       \/ /\ v = "enforced"
          /\ Set(c, [cl[c] EXCEPT !.probe = Remembered(v),
                                  !.pc = IF Role(c) = "mutate" THEN "read" ELSE "call"])
       \/ /\ v # "enforced"
          /\ Set(c, [cl[c] EXCEPT !.probe = Remembered(v),
                                  !.pc = IF cl[c].n = 1 THEN "done" ELSE "begin",
                                  !.n = @ - 1])
  /\ UNCHANGED <<world, body, ver, writes, acc, locks>>

(* External: what a provider may answer.  "fault" is any failure that says   *)
(* nothing about the object.                                                 *)
ReadAnswers(c) ==
  {"fault"} \cup (IF body[KeyOf(c)] # 0 THEN {"ok"}
                  ELSE IF \A k \in Key : body[k] = 0 THEN {"no_key", "no_bucket"} ELSE {"no_key"})

(* isNotFound of the three adapters.  S3 and Azure also take the answer      *)
(* about a missing bucket or container for a missing object.                 *)
S3IsNotFound(answer) == answer \in {"no_key", "no_bucket"}
GCSIsNotFound(answer) == answer = "no_key"
AzIsNotFound(answer) == answer \in {"no_key", "no_bucket"}

(* isPreconditionFailed of the three adapters: 412, and for all but Azure    *)
(* also 409, is a lost race; other refusals are errors.                      *)
S3IsPreconditionFailed(answer) == answer \in {"412", "409"}
GCSIsPreconditionFailed(answer) == answer \in {"412", "409"}
AzIsPreconditionFailed(answer) == answer = "412"

(* What Get, PutIfMatch and DeleteIfMatch make of an answer: "ok", "absent"  *)
(* (ErrNotFound), "lost" (ErrPreconditionFailed) or "error".                 *)
Result(answer, notFound, lost) ==
  IF answer = "ok" THEN "ok" ELSE IF notFound THEN "absent" ELSE IF lost THEN "lost" ELSE "error"

S3Get(answer)  == Result(answer, S3IsNotFound(answer), FALSE)
GCSGet(answer) == Result(answer, GCSIsNotFound(answer), FALSE)
AzGet(answer)  == Result(answer, AzIsNotFound(answer), FALSE)

S3PutIfMatch(answer)  == Result(answer, FALSE, S3IsPreconditionFailed(answer))
GCSPutIfMatch(answer) == Result(answer, FALSE, GCSIsPreconditionFailed(answer))
AzPutIfMatch(answer)  == Result(answer, FALSE, AzIsPreconditionFailed(answer))

(* Without a version S3 and Azure refuse and GCS cannot parse it; in S3 the  *)
(* probe comes first.                                                        *)
S3DeleteIfMatch(version, probe, answer) ==
  IF version = 0 THEN "lost" ELSE IF probe # "enforced" THEN "error"
  ELSE Result(answer, S3IsNotFound(answer), S3IsPreconditionFailed(answer))
GCSDeleteIfMatch(version, answer) ==
  IF version = 0 THEN "error"
  ELSE Result(answer, GCSIsNotFound(answer), GCSIsPreconditionFailed(answer))
AzDeleteIfMatch(version, answer) ==
  IF version = 0 THEN "lost"
  ELSE Result(answer, AzIsNotFound(answer), AzIsPreconditionFailed(answer))

ByAdapter(s3, gcs, az) ==
  CASE Store.adapter = "s3" -> s3 [] Store.adapter = "gcs" -> gcs [] OTHER -> az

(* A read: contents and version come in one answer.  Only an absent object   *)
(* reads as one; other failures end the operation.                           *)
CloudGet(c) ==
  /\ CloudAt(c, "read")
  /\ \E answer \in ReadAnswers(c) :
       IF ByAdapter(S3Get(answer), GCSGet(answer), AzGet(answer)) \in {"ok", "absent"}
       THEN Set(c, [cl[c] EXCEPT !.pc = "call", !.base = body[KeyOf(c)], !.exp = ver[KeyOf(c)]])
       ELSE Return(c)
  /\ UNCHANGED <<world, body, ver, writes, acc, locks>>

(* External: does the provider perform the conditional write or delete?      *)
(* A conditional write without an ETag is one of an absent object.           *)
Accepts(c) ==
  CASE Role(c) = "prune" ->
         body[KeyOf(c)] # 0 /\ (Store.delete => ver[KeyOf(c)] = cl[c].exp)
    [] Role(c) # "prune" /\ cl[c].exp = 0 ->
         Store.create => body[KeyOf(c)] = 0
    [] OTHER ->
         Store.update => body[KeyOf(c)] # 0 /\ ver[KeyOf(c)] = cl[c].exp

WriteAnswers(c) ==
  {"fault"} \cup (IF Accepts(c) THEN {"ok"}
                  ELSE IF Role(c) = "prune" /\ body[KeyOf(c)] = 0 THEN {"no_key"}
                  ELSE {"412", "409"})

(* The write itself: an acknowledged one has happened, a failed one may have.*)
Uploaded(c) ==
  /\ writes' = writes + 1
  /\ body' = [body EXCEPT ![KeyOf(c)] = writes + 1]
  /\ ver' = [ver EXCEPT ![KeyOf(c)] = NewVersion]
  /\ Replaced(c, body[KeyOf(c)])

CloudPut(c) ==
  /\ CloudAt(c, "begin")
  /\ Role(c) = "put"
  /\ Uploaded(c) \/ UNCHANGED <<body, ver, writes, acc>>
  /\ Return(c)
  /\ UNCHANGED <<world, locks>>

CloudPutIfMatch(c) ==
  /\ CloudAt(c, "call")
  /\ Role(c) \in {"mutate", "create"}
  /\ \E answer \in WriteAnswers(c) :
       /\ \/ answer \in {"ok", "fault"} /\ Accepts(c) /\ Uploaded(c)
          \/ answer # "ok" /\ UNCHANGED <<body, ver, writes, acc>>
       /\ IF ByAdapter(S3PutIfMatch(answer), GCSPutIfMatch(answer), AzPutIfMatch(answer)) = "lost"
          THEN Lost(c) ELSE Return(c)
  /\ UNCHANGED <<world, locks>>

CloudDelete(c) ==
  /\ CloudAt(c, "begin")
  /\ Role(c) = "delete"
  /\ body' \in {body, [body EXCEPT ![KeyOf(c)] = 0]}
  /\ ver' = IF body' = body THEN ver ELSE [ver EXCEPT ![KeyOf(c)] = 0]
  /\ Return(c)
  /\ UNCHANGED <<world, writes, acc, locks>>

(* ListMetadata; retention passes over what has no version. *)
CloudList(c) ==
  /\ CloudAt(c, "begin")
  /\ Role(c) = "prune"
  /\ IF body[KeyOf(c)] = 0 \/ ver[KeyOf(c)] = 0
     THEN Return(c)
     ELSE Set(c, [cl[c] EXCEPT !.pc = "call", !.base = body[KeyOf(c)], !.exp = ver[KeyOf(c)]])
  /\ UNCHANGED <<world, body, ver, writes, acc, locks>>

(* ensureConditionalDeletes: every verdict but a cancellation is kept, and   *)
(* only "enforced" lets the delete go ahead.                                 *)
CloudEnsureDeletes(c) ==
  /\ CloudAt(c, "call")
  /\ Role(c) = "prune"
  /\ Store.adapter = "s3"
  /\ cl[c].dprobe = "unknown"
  /\ \E v \in ProbeConditionalDeletes(Store) :
       IF v = "cancelled" THEN Return(c) ELSE Set(c, [cl[c] EXCEPT !.dprobe = v])
  /\ UNCHANGED <<world, body, ver, writes, acc, locks>>

(* One conditional delete; retention goes on to the next object whatever     *)
(* comes of it.                                                              *)
CloudDeleteIfMatch(c) ==
  /\ CloudAt(c, "call")
  /\ Role(c) = "prune"
  /\ Store.adapter = "s3" => cl[c].dprobe # "unknown"
  /\ \E answer \in WriteAnswers(c) :
       LET sent == ByAdapter(S3DeleteIfMatch(cl[c].exp, cl[c].dprobe, "ok"),
                             GCSDeleteIfMatch(cl[c].exp, "ok"), AzDeleteIfMatch(cl[c].exp, "ok"))
       IN  \/ /\ sent = "ok" /\ answer \in {"ok", "fault"} /\ Accepts(c)
              /\ body' = [body EXCEPT ![KeyOf(c)] = 0]
              /\ ver' = [ver EXCEPT ![KeyOf(c)] = 0]
              /\ Replaced(c, body[KeyOf(c)])
           \/ /\ sent # "ok" \/ answer # "ok"
              /\ UNCHANGED <<body, ver, acc>>
  /\ Return(c)
  /\ UNCHANGED <<world, writes, locks>>

=============================================================================
