------------------------------- MODULE IpcSync -------------------------------
(***************************************************************************)
(* Two processes and a pipe (util/ipc_sync.c, util/fork_func.c): a parent  *)
(* makes the pipe and forks a child; one of them waits for a byte and the  *)
(* other one writes it.  Both have both ends of the pipe until they close  *)
(* them, and either may be killed at any time.  Signals other than that    *)
(* one, and the system calls (external), show as calls that fail.          *)
(***************************************************************************)
EXTENDS Integers

CONSTANTS MaxSignals  \* how often ipc_sync_signal is called

Procs == {"parent", "child"}
Other(p) == IF p = "parent" THEN "child" ELSE "parent"

VARIABLES
  proc,     \* each process: "none", "run", "blocked" in read, "exited", "killed"
  waiter,   \* which of the two waits
  ends,     \* the ends of the pipe each has open
  gone,     \* the ends its struct ipc_sync says are closed (-1)
  freed,    \* the processes that have called ipc_sync_done
  pipe,     \* the bytes in the pipe
  signals,  \* how many bytes were written
  waits,    \* how many waits succeeded
  childrc   \* what fork_func_wait returned, or "none"

ipcvars == <<proc, waiter, ends, gone, freed, pipe, signals, waits, childrc>>
pipevars == <<ends, gone, freed, pipe, signals, waits>>

IpcTypeOK ==
  /\ proc \in [Procs -> {"none", "run", "blocked", "exited", "killed"}]
  /\ waiter \in Procs /\ freed \subseteq Procs
  /\ ends \in [Procs -> SUBSET {"R", "W"}] /\ gone \in [Procs -> SUBSET {"R", "W"}]
  /\ pipe \in 0 .. MaxSignals /\ signals \in 0 .. MaxSignals /\ waits \in 0 .. MaxSignals

IpcInit ==
  /\ waiter \in Procs
  /\ proc = [p \in Procs |-> IF p = "parent" THEN "run" ELSE "none"]
  /\ ends = [p \in Procs |-> {}] /\ gone = [p \in Procs |-> {}]
  /\ freed = {} /\ pipe = 0 /\ signals = 0 /\ waits = 0 /\ childrc = "none"

Runs(p) == proc[p] = "run" /\ ends["parent"] \cup ends["child"] \cup gone[p] # {} /\ p \notin freed
----------------------------------------------------------------------------
(* ipc_sync_init, by the parent and before the fork. *)
ipc_sync_init ==
  /\ proc["parent"] = "run" /\ proc["child"] = "none"
  /\ ends["parent"] = {} /\ gone["parent"] = {} /\ freed = {}
  /\ ends' = [ends EXCEPT !["parent"] = {"R", "W"}]
  /\ UNCHANGED <<proc, waiter, gone, freed, pipe, signals, waits, childrc>>

(* fork_func: the child has copies of the descriptors. *)
fork_func ==
  /\ proc["parent"] = "run" /\ proc["child"] = "none" /\ ends["parent"] = {"R", "W"}
  /\ proc' = [proc EXCEPT !["child"] = "run"]
  /\ ends' = [ends EXCEPT !["child"] = ends["parent"]]
  /\ UNCHANGED <<waiter, gone, freed, pipe, signals, waits, childrc>>

(* ipc_sync_prep: closes an end, unless it is closed.  If close fails, the  *)
(* caller returns -1 and nothing has changed.                               *)
ipc_sync_prep_not(p, num) == UNCHANGED <<ends, gone>>
ipc_sync_prep(p, num) ==
  /\ ends' = [ends EXCEPT ![p] = @ \ {num}]
  /\ gone' = [gone EXCEPT ![p] = @ \cup {num}]

(* ipc_sync_wait_prep, ipc_sync_signal_prep. *)
ipc_sync_wait_prep(p) ==
  /\ Runs(p) /\ proc["child"] # "none" /\ p = waiter
  /\ ipc_sync_prep(p, "W")
  /\ UNCHANGED <<proc, waiter, freed, pipe, signals, waits, childrc>>
ipc_sync_signal_prep(p) ==
  /\ Runs(p) /\ proc["child"] # "none" /\ p # waiter
  /\ ipc_sync_prep(p, "R")
  /\ UNCHANGED <<proc, waiter, freed, pipe, signals, waits, childrc>>

(* ipc_sync_wait: closes the write end and blocks in readbyte. *)
ipc_sync_wait(p) ==
  /\ Runs(p) /\ proc["child"] # "none" /\ p = waiter /\ waits < MaxSignals
  /\ ipc_sync_prep(p, "W")
  /\ proc' = [proc EXCEPT ![p] = "blocked"]
  /\ UNCHANGED <<waiter, freed, pipe, signals, waits, childrc>>

(* readbyte: a byte, or the end of the pipe once nobody can write to it. *)
readbyte(p) ==
  /\ proc[p] = "blocked"
  /\ \/ pipe > 0 /\ pipe' = pipe - 1 /\ waits' = waits + 1
     \/ pipe = 0 /\ (\A q \in Procs : "W" \notin ends[q]) /\ UNCHANGED <<pipe, waits>>
  /\ proc' = [proc EXCEPT ![p] = "run"]
  /\ UNCHANGED <<waiter, ends, gone, freed, signals, childrc>>

(* ipc_sync_signal: closes the read end and writes a byte.  If nobody can   *)
(* read it, write fails, or SIGPIPE kills the process.                      *)
ipc_sync_signal(p) ==
  /\ Runs(p) /\ proc["child"] # "none" /\ p # waiter /\ signals < MaxSignals
  /\ \/ /\ "R" \in ends[Other(p)]
        /\ ipc_sync_prep(p, "R")
        /\ pipe' = pipe + 1 /\ signals' = signals + 1
        /\ UNCHANGED proc
     \/ /\ "R" \notin ends[Other(p)]
        /\ \/ ipc_sync_prep(p, "R") /\ UNCHANGED proc
           \/ /\ proc' = [proc EXCEPT ![p] = "killed"]
              /\ ends' = [ends EXCEPT ![p] = {}]
              /\ UNCHANGED gone
        /\ UNCHANGED <<pipe, signals>>
  /\ UNCHANGED <<waiter, freed, waits, childrc>>

(* ipc_sync_done closes what is open. *)
ipc_sync_done(p) ==
  /\ Runs(p)
  /\ ends' = [ends EXCEPT ![p] = {}]
  /\ freed' = freed \cup {p}
  /\ UNCHANGED <<proc, waiter, gone, pipe, signals, waits, childrc>>

(* The function the child runs returns, or a process is killed. *)
Ends(p, how) ==
  /\ proc[p] = "run" \/ (proc[p] = "blocked" /\ how = "killed")
  /\ p = "child" \/ how = "killed"
  /\ proc' = [proc EXCEPT ![p] = how]
  /\ ends' = [ends EXCEPT ![p] = {}]
  /\ UNCHANGED <<waiter, gone, freed, pipe, signals, waits, childrc>>

(* fork_func_wait: the exit code of the child, or -1. *)
fork_func_wait ==
  /\ proc["parent"] = "run" /\ proc["child"] \in {"exited", "killed"} /\ childrc = "none"
  /\ childrc' = (IF proc["child"] = "exited" THEN "code" ELSE "-1")
  /\ UNCHANGED <<proc, waiter, pipevars>>

IpcNext ==
  \/ ipc_sync_init \/ fork_func \/ fork_func_wait
  \/ \E p \in Procs :
       \/ ipc_sync_wait_prep(p) \/ ipc_sync_signal_prep(p)
       \/ ipc_sync_wait(p) \/ readbyte(p) \/ ipc_sync_signal(p) \/ ipc_sync_done(p)
       \/ \E how \in {"exited", "killed"} : Ends(p, how)

IpcSpec == IpcInit /\ [][IpcNext]_ipcvars

(* The kernel wakes up who can read. *)
IpcFairness == WF_ipcvars(\E p \in Procs : readbyte(p))
FairIpcSpec == IpcSpec /\ IpcFairness
----------------------------------------------------------------------------
(* A process never waits for one that is gone: when the other process has   *)
(* signalled, called ipc_sync_done, returned or been killed, the wait ends. *)
PeerSpoke(p) == pipe > 0 \/ Other(p) \in freed \/ proc[Other(p)] \in {"exited", "killed"}
WaitEnds ==
  /\ []IpcTypeOK
  /\ \A p \in Procs : (proc[p] = "blocked" /\ PeerSpoke(p)) ~> proc[p] # "blocked"
=============================================================================
