------------------------------- MODULE WorkCache -------------------------------
(***************************************************************************)
(* The immutable work-result cache of the SIS estimator                    *)
(* (akita-sis-estimator/src/work_cache.rs): one content-addressed result   *)
(* file that several worker processes may store and load at once.          *)
(*                                                                         *)
(* A store looks for an existing result, writes the envelope to a private  *)
(* temporary file, fsyncs it and publishes it with a hard link, which      *)
(* fails if the destination exists.  Processes crash between any two       *)
(* steps and may come back under the same pid with a fresh TEMP_NONCE; any *)
(* file operation may fail; the published file may be damaged on disk.     *)
(*                                                                         *)
(* One work id is modelled: ids never share a path.                        *)
(***************************************************************************)
EXTENDS Naturals

CONSTANTS
  Procs,      \* worker processes, each with its own pid
  Payloads,   \* the results a worker may compute for the work id
  Absent,     \* no file
  Partial,    \* a file whose bytes are not all written
  Damaged,    \* a file whose envelope no longer matches its payload
  MaxNonce,   \* bound on the stores of one process life
  MaxFaults   \* bound on crashes, failed file operations and disk damage

ASSUME WorkCacheAssumption ==
  /\ MaxNonce \in Nat \ {0}
  /\ MaxFaults \in Nat
  /\ Absent \notin Payloads /\ Partial \notin Payloads /\ Damaged \notin Payloads
  /\ Absent # Partial /\ Absent # Damaged /\ Partial # Damaged

VARIABLES
  dest,    \* content of the destination path
  temp,    \* content of every temporary path, named by pid and nonce
  pc,      \* where each process is in store
  want,    \* the payload each process stores
  nonce,   \* TEMP_NONCE of each process
  result,  \* what the last store of each process returned
  faults,  \* faults injected so far
  acked    \* payloads some store has returned Ok for

vars == <<dest, temp, pc, want, nonce, result, faults, acked>>

Contents == Payloads \cup {Absent, Partial, Damaged}
Nonces == 0 .. MaxNonce - 1
Steps == {"idle", "lookup", "create", "write", "link", "unlink", "reload"}
Results == {"none", "ok", "conflict", "error"}

\* The temporary path a process has open: TEMP_NONCE was advanced when the
\* name was taken.
TempName(p) == nonce[p] - 1

TypeOK ==
  /\ dest \in Contents
  /\ temp \in [Procs -> [Nonces -> Contents]]
  /\ pc \in [Procs -> Steps]
  /\ want \in [Procs -> Payloads]
  /\ nonce \in [Procs -> 0 .. MaxNonce]
  /\ result \in [Procs -> Results]
  /\ faults \in 0 .. MaxFaults
  /\ acked \in SUBSET Payloads

Init ==
  /\ dest = Absent
  /\ temp = [p \in Procs |-> [n \in Nonces |-> Absent]]
  /\ pc = [p \in Procs |-> "idle"]
  /\ want \in [Procs -> Payloads]
  /\ nonce = [p \in Procs |-> 0]
  /\ result = [p \in Procs |-> "none"]
  /\ faults = 0
  /\ acked = {}

Goto(p, from, to) == pc[p] = from /\ pc' = [pc EXCEPT ![p] = to]

Fault == faults < MaxFaults /\ faults' = faults + 1

Return(p, r) ==
  /\ result' = [result EXCEPT ![p] = r]
  /\ acked' = IF r = "ok" THEN acked \cup {want[p]} ELSE acked

\* decode_envelope: the payload comes back only from an envelope that matches
\* the id, the length and the digest.
Decodes(content) == content \in Payloads

\* load followed by store's comparison with the payload at hand.
Compare(p) ==
  IF ~Decodes(dest) THEN "error"
  ELSE IF dest = want[p] THEN "ok" ELSE "conflict"
-----------------------------------------------------------------------------
\* A worker calls store with a payload.
Begin(p, v) ==
  /\ nonce[p] < MaxNonce
  /\ Goto(p, "idle", "lookup")
  /\ want' = [want EXCEPT ![p] = v]
  /\ result' = [result EXCEPT ![p] = "none"]
  /\ UNCHANGED <<dest, temp, nonce, faults, acked>>

\* store: an existing result answers the call.
FindExisting(p) ==
  /\ dest # Absent
  /\ Goto(p, "lookup", "idle")
  /\ Return(p, Compare(p))
  /\ UNCHANGED <<dest, temp, want, nonce, faults>>

\* NotFound: the store goes on to make the directory and the temporary.
FindNothing(p) ==
  /\ dest = Absent
  /\ Goto(p, "lookup", "create")
  /\ UNCHANGED <<dest, temp, want, nonce, result, faults, acked>>

TempTaken(p) == temp[p][nonce[p]] # Absent

\* create_new on a path an earlier life of this pid left behind fails, and
\* leaves that file alone.
CreateTemp(p) ==
  /\ pc[p] = "create"
  /\ nonce' = [nonce EXCEPT ![p] = @ + 1]
  /\ \/ /\ ~TempTaken(p)
        /\ temp' = [temp EXCEPT ![p][nonce[p]] = Partial]
        /\ Goto(p, "create", "write")
        /\ UNCHANGED <<result, acked>>
     \/ /\ TempTaken(p)
        /\ Goto(p, "create", "idle")
        /\ Return(p, "error")
        /\ UNCHANGED temp
  /\ UNCHANGED <<dest, want, faults>>

\* write_all followed by sync_all.
WriteTemp(p) ==
  /\ Goto(p, "write", "link")
  /\ temp' = [temp EXCEPT ![p][TempName(p)] = want[p]]
  /\ UNCHANGED <<dest, want, nonce, result, faults, acked>>

\* rename instead of hard_link: the second publisher replaces the first.
LinkByRename(p) ==
  /\ Goto(p, "link", "unlink")
  /\ dest' = temp[p][TempName(p)]
  /\ UNCHANGED <<temp, want, nonce, result, faults, acked>>

\* hard_link publishes the file only where nothing is published.
Link(p) ==
  /\ \/ /\ dest = Absent
        /\ Goto(p, "link", "unlink")
        /\ dest' = temp[p][TempName(p)]
     \/ /\ dest # Absent
        /\ Goto(p, "link", "reload")
        /\ UNCHANGED dest
  /\ UNCHANGED <<temp, want, nonce, result, faults, acked>>

\* remove_file of the temporary; its failure is ignored and leaves the file.
RemoveTemp(p) ==
  \/ temp' = [temp EXCEPT ![p][TempName(p)] = Absent]
  \/ temp' = temp

\* The winner removes its temporary, then returns Ok.
Unlink(p) ==
  /\ Goto(p, "unlink", "idle")
  /\ RemoveTemp(p)
  /\ Return(p, "ok")
  /\ UNCHANGED <<dest, want, nonce, faults>>

\* The loser removes its temporary and looks at the winner's file.
Reload(p) ==
  /\ Goto(p, "reload", "idle")
  /\ RemoveTemp(p)
  /\ Return(p, Compare(p))
  /\ UNCHANGED <<dest, want, nonce, faults>>

\* A file operation fails before there is a temporary: reading the
\* destination, making the directory, or opening the temporary (its name is
\* then spent).
FailEarly(p) ==
  /\ Fault
  /\ pc[p] \in {"lookup", "create"}
  /\ pc' = [pc EXCEPT ![p] = "idle"]
  /\ \/ UNCHANGED nonce
     \/ pc[p] = "create" /\ nonce' = [nonce EXCEPT ![p] = @ + 1]
  /\ Return(p, "error")
  /\ UNCHANGED <<dest, temp, want>>

\* Writing, syncing, linking or reading the winner's file fails.
FailLate(p) ==
  /\ Fault
  /\ pc[p] \in {"write", "link", "reload"}
  /\ pc' = [pc EXCEPT ![p] = "idle"]
  /\ RemoveTemp(p)
  /\ Return(p, "error")
  /\ UNCHANGED <<dest, want, nonce>>

\* The process dies; its temporary stays; the pid may be used again.
Crash(p) ==
  /\ Fault
  /\ pc[p] # "idle"
  /\ pc' = [pc EXCEPT ![p] = "idle"]
  /\ nonce' = [nonce EXCEPT ![p] = 0]
  /\ result' = [result EXCEPT ![p] = "none"]
  /\ UNCHANGED <<dest, temp, want, acked>>

\* The published file is damaged on disk.
Damage ==
  /\ Fault
  /\ dest \in Payloads
  /\ dest' = Damaged
  /\ UNCHANGED <<temp, pc, want, nonce, result, acked>>

Step(p) ==
  \/ FindExisting(p) \/ FindNothing(p) \/ CreateTemp(p) \/ WriteTemp(p)
  \/ Link(p) \/ Unlink(p) \/ Reload(p)

Next ==
  \/ \E p \in Procs : 
       \/ Step(p) \/ FailEarly(p) \/ FailLate(p) \/ Crash(p)
       \/ \E v \in Payloads : Begin(p, v)
  \/ Damage

Spec == Init /\ [][Next]_vars
-----------------------------------------------------------------------------
\* No reader of the destination ever meets a half-written envelope: only an
\* fsynced temporary is linked (work_cache.rs store).
NoTornResult == dest # Partial

\* All stores of one id that returned Ok returned it for the same payload,
\* whatever the interleaving of lookups, links and crashes.
StoresAgree == \A v, w \in acked : v = w

\* A published result is never replaced; it can only rot.
ResultImmutable == [][dest # Absent => dest' \in {dest, Damaged}]_dest

\* An acknowledged result is on disk, unless the disk damaged it.
AckedIsPublished == \A v \in acked : dest \in {v, Damaged}

\* All of this together: whatever the workers do, the cache behaves like a
\* register that is written once.
Register == INSTANCE WriteOnce WITH
  Values <- Payloads, Unset <- Absent, Lost <- Damaged, cell <- dest, promised <- acked
ImplementsWriteOnce == Register!Spec
-----------------------------------------------------------------------------
\* What the protocol keeps true between the steps of the stores in flight.
\* A process holds a nonce it may still use, or has taken one.
NonceOfStep ==
  \A p \in Procs :
    /\ pc[p] \in {"lookup", "create"} => nonce[p] < MaxNonce
    /\ pc[p] \in {"write", "link", "unlink", "reload"} => nonce[p] > 0

\* The file a process is about to link is complete and its own.
LinkedIsWritten == \A p \in Procs : pc[p] = "link" => temp[p][TempName(p)] = want[p]

\* A payload won the destination: a store of it returned Ok, or linked it and
\* is about to return Ok.
Won(v) == v \in acked \/ \E p \in Procs : pc[p] = "unlink" /\ want[p] = v

\* There is at most one winner, and it is what the destination holds.
OneWinner ==
  /\ \A v \in Payloads : Won(v) => dest \in {v, Damaged}
  /\ \A v, w \in Payloads : Won(v) /\ Won(w) => v = w

IInv == TypeOK /\ NoTornResult /\ NonceOfStep /\ LinkedIsWritten /\ OneWinner
=============================================================================
