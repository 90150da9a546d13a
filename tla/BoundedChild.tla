------------------------------ MODULE BoundedChild ------------------------------
(***************************************************************************)
(* How the CLI runs another program and waits for it, in its three styles: *)
(*   "bounded"   run_bounded_command (doctor probes, direct exec)          *)
(*   "provider"  run_external_provider_command_with_stdin (password CLIs)  *)
(*   "thread"    run_probe of doctor.rs: Command::output in a thread       *)
(* The child is a session leader in the first two; what it forks is in its *)
(* process group ("kin") unless it starts a session of its own ("far").    *)
(* Everything the child forks holds the same two pipes.  Output is counted *)
(* in units; Cap is the most that is accepted.                             *)
(***************************************************************************)
EXTENDS Naturals, FiniteSets

CONSTANT Cap   \* max_bytes, MAX_BROKER_BYTES

ASSUME CapAssumption == Cap \in Nat

Streams == {"stdout", "stderr"}
Kin == {"kin", "far"}

VARIABLES
  style,     \* which of the three
  feeds,     \* stdin_data is given
  ph,        \* the caller: idle, spawn, feed, poll, join, drain, done
  procs,     \* processes that run and hold the pipes
  exitOk,    \* the child's exit status
  reaped,    \* the child has been waited for
  due,       \* the timeout has elapsed
  wrote,     \* per stream: what was written
  got,       \* per stream: what its reader has read
  reader,    \* per stream: the reader thread, "reading" or "ended"
  outcome    \* what the call returned

childVars == <<style, feeds, ph, procs, exitOk, reaped, due, wrote, got,
               reader, outcome>>

ChildInit ==
  /\ style = "bounded" /\ feeds = FALSE
  /\ ph = "idle" /\ procs = {} /\ exitOk = FALSE /\ reaped = FALSE
  /\ due = FALSE /\ outcome = "none"
  /\ wrote = [s \in Streams |-> 0] /\ got = [s \in Streams |-> 0]
  /\ reader = [s \in Streams |-> "reading"]

\* A new call; whatever an earlier one has left behind is out of sight.
Start(how, withStdin) ==
  /\ style' = how /\ feeds' = withStdin
  /\ ph' = "spawn" /\ procs' = {} /\ exitOk' = FALSE /\ reaped' = FALSE
  /\ due' = FALSE /\ outcome' = "none"
  /\ wrote' = [s \in Streams |-> 0] /\ got' = [s \in Streams |-> 0]
  /\ reader' = [s \in Streams |-> "reading"]

Return(what) == ph' = "done" /\ outcome' = what

SpawnFails ==
  /\ ph = "spawn"
  /\ Return("notSpawned")
  /\ UNCHANGED <<style, feeds, procs, exitOk, reaped, due, wrote, got, reader>>

Spawn ==
  /\ ph = "spawn"
  /\ procs' = {"child"}
  /\ ph' = IF feeds THEN "feed" ELSE "poll"
  /\ UNCHANGED <<style, feeds, exitOk, reaped, due, wrote, got, reader, outcome>>

\* write_all to the child's stdin.  If it fails the child is neither killed
\* nor waited for.
Feed ==
  /\ ph = "feed"
  /\ \/ ph' = "poll" /\ UNCHANGED outcome
     \/ Return("failed")
  /\ UNCHANGED <<style, feeds, procs, exitOk, reaped, due, wrote, got, reader>>

\* Mutant: the readers stop at the cap.
ReaderLimitAtCap == Cap

\* take(max_bytes + 1): one unit more than is accepted.
ReaderLimit == Cap + 1

\* A reader thread ends at its limit or when nobody holds the pipe any more;
\* Command::output has no limit.
ReaderEnds(s) ==
  /\ ph \in {"poll", "join", "drain"} /\ reader[s] = "reading"
  /\ \/ /\ style # "thread" /\ wrote[s] >= ReaderLimit
        /\ got' = [got EXCEPT ![s] = ReaderLimit]
     \/ /\ procs = {}
        /\ style = "thread" \/ wrote[s] < ReaderLimit
        /\ got' = [got EXCEPT ![s] = wrote[s]]
  /\ reader' = [reader EXCEPT ![s] = "ended"]
  /\ UNCHANGED <<style, feeds, ph, procs, exitOk, reaped, due, wrote, outcome>>

ReadersEnded == \A s \in Streams : reader[s] = "ended"

\* try_wait: the child has exited.
PollExited ==
  /\ ph = "poll" /\ style # "thread" /\ "child" \notin procs
  /\ reaped' = TRUE
  /\ ph' = "join"
  /\ UNCHANGED <<style, feeds, procs, exitOk, due, wrote, got, reader, outcome>>

\* Mutant: only the child is killed, not its group.
PollTimeoutChildOnly ==
  /\ ph = "poll" /\ style # "thread" /\ "child" \in procs /\ due
  /\ procs' = procs \ {"child"}
  /\ reaped' = TRUE
  /\ IF style = "bounded" THEN ph' = "drain" /\ UNCHANGED outcome
                          ELSE Return("timeout")
  /\ UNCHANGED <<style, feeds, exitOk, due, wrote, got, reader>>

\* Mutant: the poll loop has no deadline.
PollNeverTimesOut ==
  /\ ph = "poll" /\ FALSE
  /\ UNCHANGED childVars

\* The deadline: the group is killed and the child reaped.  "bounded" then
\* joins its readers, "provider" leaves them behind.
PollTimeout ==
  /\ ph = "poll" /\ style # "thread" /\ "child" \in procs /\ due
  /\ procs' = procs \ {"child", "kin"}
  /\ reaped' = TRUE
  /\ IF style = "bounded" THEN ph' = "drain" /\ UNCHANGED outcome
                          ELSE Return("timeout")
  /\ UNCHANGED <<style, feeds, exitOk, due, wrote, got, reader>>

Drained ==
  /\ ph = "drain" /\ ReadersEnded
  /\ Return("timeout")
  /\ UNCHANGED <<style, feeds, procs, exitOk, reaped, due, wrote, got, reader>>

\* try_wait fails: the child is left as it is.
PollFails ==
  /\ ph = "poll" /\ style # "thread"
  /\ Return("failed")
  /\ UNCHANGED <<style, feeds, procs, exitOk, reaped, due, wrote, got, reader>>

\* The readers are joined, without a deadline, and the sizes compared.
Joined ==
  /\ ph = "join" /\ ReadersEnded
  /\ Return(IF \E s \in Streams : got[s] > Cap THEN "tooLarge"
            ELSE IF exitOk THEN "ok" ELSE "nonzero")
  /\ UNCHANGED <<style, feeds, procs, exitOk, reaped, due, wrote, got, reader>>

\* run_probe: recv_timeout on the channel of the thread.  On timeout thread
\* and child live on.
ProbeEnds ==
  /\ ph = "poll" /\ style = "thread"
  /\ \/ /\ ReadersEnded /\ "child" \notin procs
        /\ reaped' = TRUE
        /\ Return(IF exitOk THEN "ok" ELSE "nonzero")
     \/ /\ due
        /\ Return("timeout")
        /\ UNCHANGED reaped
  /\ UNCHANGED <<style, feeds, procs, exitOk, due, wrote, got, reader>>

TimePasses ==
  /\ ph = "poll" /\ ~due
  /\ due' = TRUE
  /\ UNCHANGED <<style, feeds, ph, procs, exitOk, reaped, wrote, got, reader,
                 outcome>>

(***************************************************************************)
(* The child and what it forks (external).                                 *)
(***************************************************************************)
Running == ph \in {"feed", "poll", "join", "drain"}

Forks ==
  /\ Running /\ "child" \in procs
  /\ \E p \in Kin \ procs : procs' = procs \cup {p}
  /\ UNCHANGED <<style, feeds, ph, exitOk, reaped, due, wrote, got, reader,
                 outcome>>

\* (More than one unit above the cap makes no difference.)
Writes ==
  /\ Running /\ procs # {}
  /\ \E s \in Streams :
       /\ reader[s] = "reading" /\ wrote[s] <= Cap
       /\ wrote' = [wrote EXCEPT ![s] = @ + 1]
  /\ UNCHANGED <<style, feeds, ph, procs, exitOk, reaped, due, got, reader,
                 outcome>>

Exits ==
  /\ Running
  /\ \E p \in procs :
       /\ procs' = procs \ {p}
       /\ IF p = "child" THEN exitOk' \in BOOLEAN ELSE UNCHANGED exitOk
  /\ UNCHANGED <<style, feeds, ph, reaped, due, wrote, got, reader, outcome>>

CallerStep ==
  \/ SpawnFails \/ Spawn \/ Feed \/ PollExited \/ PollTimeout \/ Drained
  \/ Joined \/ ProbeEnds
  \/ \E s \in Streams : ReaderEnds(s)

ChildStep == CallerStep \/ PollFails \/ TimePasses \/ Forks \/ Writes \/ Exits

--------------------------------------------------------------------------------
(***************************************************************************)
(* Properties.                                                             *)
(***************************************************************************)

\* A call that reports a timeout leaves nothing of the child's process group
\* running and no zombie (kill of -pid, child.wait): a shell that has forked
\* the tool that hangs dies with it.  run_probe promises nothing of the kind.
GroupKilled ==
  outcome = "timeout" /\ style # "thread" =>
    reaped /\ procs \subseteq {"far"}

\* Output that is accepted is all that was written, by the child and by what
\* it forked, and no more than the cap: the readers take one unit more than
\* is allowed, so a truncated output is never taken for a short one.
CompleteOutput ==
  outcome \in {"ok", "nonzero"} =>
    /\ procs = {} /\ got = wrote
    /\ style # "thread" => \A s \in Streams : got[s] <= Cap
================================================================================
