------------------------------ MODULE AuditChain ------------------------------
(***************************************************************************)
(* The append-only audit log of src/src/audit.py: write_audit_log by any     *)
(* number of writers, one process each, and verify_audit_log, under an       *)
(* operating system lock on a sidecar file.                                 *)
(*                                                                         *)
(* A line is its sequence number, the digest of the line before and its      *)
(* record. A digest is the record it was taken of: no two records of a log   *)
(* are the same. `torn` says that the log ends in a part of a line.          *)
(***************************************************************************)
EXTENDS Integers, Sequences, FiniteSets

CONSTANTS
    Writers,
    HasLegacy,    \* whether the log starts with records from before the chain
    Disturbances  \* what may go wrong around the program

ASSUME HasLegacyAssumption == HasLegacy \in BOOLEAN

ASSUME DisturbancesAssumption ==
    Disturbances \subseteq {"crash", "disk", "dba", "controls"}

VARIABLES
    log,      \* the whole lines of the log
    torn,     \* whether a part of a line follows them
    locked,   \* the writers who hold the lock
    writer,   \* writer[w]: the call of write_audit_log of w
    reader    \* verify_audit_log, called again until it reports an invalid log

auditVars == <<log, torn, locked, writer, reader>>

\* A record that is not of the chain, from before there was one.
LegacyLine == [sequence |-> 0, previous |-> <<>>, record |-> <<"legacy">>]

Chained(l) == {i \in DOMAIN l : l[i].sequence # 0}

\* The head a new line goes on from: the digest of the last line, chained or
\* legacy ("legacy_tail_sha256"), and nothing in an empty log ("genesis").
PreviousOf(l) == IF l = <<>> THEN <<>> ELSE l[Len(l)].record

SequenceOf(l) == Cardinality(Chained(l)) + 1

\* _verify_audit_log_unlocked of whole lines: every line goes on from the lines
\* before it, and only legacy lines come before the chain.
ChainContinues(l) ==
    \A i \in Chained(l) :
        LET before == SubSeq(l, 1, i - 1) IN
        /\ l[i].sequence = SequenceOf(before)
        /\ l[i].previous = PreviousOf(before)
        /\ \A j \in DOMAIN l : j > i => j \in Chained(l)

Verified == ~torn /\ ChainContinues(log)

NoCall == [at |-> "idle", record |-> <<>>, sequence |-> 0, previous |-> <<>>,
           written |-> FALSE]

AuditInit ==
    /\ log = IF HasLegacy THEN <<LegacyLine>> ELSE <<>>
    /\ torn = FALSE
    /\ locked = {}
    /\ writer = [w \in Writers |-> NoCall]
    /\ reader = "idle"

\* The call of write_audit_log, by an action of its caller.
StartWrite(w, record) ==
    writer' = [writer EXCEPT ![w] = [NoCall EXCEPT !.at = "waiting",
                                                   !.record = record]]

EndWrite(w, written) ==
    writer' = [writer EXCEPT ![w] = [@ EXCEPT !.at = "ended", !.written = written]]

-----------------------------------------------------------------------------

\* Mutant: a lock held by another is taken over, as one held for long once was.
AcquireLockStale(w) ==
    /\ writer[w].at = "waiting"
    /\ locked' = locked \cup {w}
    /\ writer' = [writer EXCEPT ![w] = [@ EXCEPT !.at = "locked"]]
    /\ UNCHANGED <<log, torn, reader>>

\* _exclusive_audit_lock: the attempts end with the lock, or after five seconds
\* of another's holding it.
AcquireLock(w) ==
    /\ writer[w].at = "waiting"
    /\ \/ /\ locked = {}
          /\ locked' = {w}
          /\ writer' = [writer EXCEPT ![w] = [@ EXCEPT !.at = "locked"]]
       \/ /\ locked # {}
          /\ EndWrite(w, FALSE)
          /\ UNCHANGED locked
    /\ UNCHANGED <<log, torn, reader>>

\* Mutant: a log that does not verify is appended to.
VerifyUnheeded(w) ==
    /\ writer[w].at = "locked"
    /\ writer' = [writer EXCEPT ![w] = [@ EXCEPT
                        !.at = "verified", !.sequence = SequenceOf(log),
                        !.previous = PreviousOf(log)]]
    /\ UNCHANGED <<log, torn, locked, reader>>

\* The retained chain is verified before it is gone on from.
VerifyBeforeAppend(w) ==
    /\ writer[w].at = "locked"
    /\ IF Verified
       THEN /\ writer' = [writer EXCEPT ![w] = [@ EXCEPT
                            !.at = "verified", !.sequence = SequenceOf(log),
                            !.previous = PreviousOf(log)]]
            /\ UNCHANGED locked
       ELSE EndWrite(w, FALSE) /\ locked' = locked \ {w}
    /\ UNCHANGED <<log, torn, reader>>

\* The text reaches the file in parts.
BeginAppend(w) ==
    /\ writer[w].at = "verified"
    /\ \/ /\ torn' = TRUE
          /\ writer' = [writer EXCEPT ![w] = [@ EXCEPT !.at = "appending"]]
          /\ UNCHANGED locked
       \/ /\ "disk" \in Disturbances
          /\ EndWrite(w, FALSE)
          /\ locked' = locked \ {w}
          /\ UNCHANGED torn
    /\ UNCHANGED <<log, reader>>

\* The last part and fsync, and the release of the lock whatever they do: the
\* line may be whole and reported as not written, or never become whole.
FinishAppend(w) ==
    LET call == writer[w] IN
    /\ call.at = "appending"
    /\ \/ /\ log' = Append(log, [sequence |-> call.sequence,
                                 previous |-> call.previous,
                                 record |-> call.record])
          /\ torn' = FALSE
          /\ \/ EndWrite(w, TRUE)
             \/ "disk" \in Disturbances /\ EndWrite(w, FALSE)
       \/ /\ "disk" \in Disturbances
          /\ EndWrite(w, FALSE)
          /\ UNCHANGED <<log, torn>>
    /\ locked' = locked \ {w}
    /\ UNCHANGED reader

\* The process of w ends: the kernel releases its lock, and what it had not
\* written it never writes.
WriterDies(w) ==
    /\ writer' = [writer EXCEPT ![w] = NoCall]
    /\ locked' = locked \ {w}
    /\ UNCHANGED <<log, torn, reader>>

\* Mutant: the reader does not take the lock.
VerifyLogUnlocked ==
    /\ reader = "idle"
    /\ reader' = IF Verified THEN "idle" ELSE "invalid"
    /\ UNCHANGED <<log, torn, locked, writer>>

\* verify_audit_log takes the same lock, under which nothing is written, or
\* times out and reports nothing.
VerifyLog ==
    /\ reader = "idle"
    /\ locked = {}
    /\ reader' = IF Verified THEN "idle" ELSE "invalid"
    /\ UNCHANGED <<log, torn, locked, writer>>

WriterStep(w) ==
    \/ AcquireLock(w)
    \/ VerifyBeforeAppend(w)
    \/ BeginAppend(w)
    \/ FinishAppend(w)

AuditStep ==
    \/ \E w \in Writers : WriterStep(w)
    \/ VerifyLog

-----------------------------------------------------------------------------

\* Who is in the middle of a line that it may yet finish.
Appending == {w \in Writers : writer[w].at = "appending"}

\* A part of a line that nobody is writing any more.
Damaged == torn /\ Appending = {}

\* However many processes append, fail, or die in the middle of a line, the whole
\* lines are one chain from its anchor, and one writer at most is in the file.
LogIsOneChain ==
    /\ ChainContinues(log)
    /\ \A v, w \in Appending : v = w

\* "Readers use the same lock so a partially flushed append is not incorrectly
\* reported as corruption": only a damaged log is reported invalid.
OnlyDamageIsReported == reader = "invalid" => Damaged

\* "Preserve damaged logs for investigation; SafeDBA never silently truncates or
\* repairs them" (docs/OPERATIONS.md:93-94), nor appends to them; and no line of a
\* log is ever changed or removed.
LogOnlyGrows ==
    [][ /\ Damaged => UNCHANGED <<log, torn>> /\ Appending' = {}
        /\ Len(log') >= Len(log)
        /\ SubSeq(log', 1, Len(log)) = log ]_auditVars

=============================================================================
