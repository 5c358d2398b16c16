--------------------------- MODULE MultiMainSetup ---------------------------
(***************************************************************************)
(* Which of several main processes leads: a key in Redis names the leader, *)
(* each main looks at it at an interval, extends its life if the key is     *)
(* its own, and tries to set it if there is none.                          *)
(*                                                                         *)
(* A check is an asynchronous function: the command goes to Redis, is       *)
(* carried out there, and the answer is acted upon later.  Each main has    *)
(* one connection, so its commands are carried out, and their answers come, *)
(* in order.  Time is abstract: the key of a process that no longer extends *)
(* it may run out at any moment, that of one that does only if Redis loses  *)
(* it or the process is slow (a lapse).                                    *)
(***************************************************************************)
EXTENDS Naturals, Sequences, FiniteSets

CONSTANTS
    Mains,             \* the main processes, by their place (host or container)
    NoOne,             \* no key is set
    Gone,              \* the key names a process that has ended and whose name is not used again
    InDocker,          \* the mains that have the name of their host: started again, they have it again
    MaxChecks,         \* for each main, a bound on its checks that are under way at a time
    MaxFaults          \* bound on the processes that end, by a crash or a signal, and the lapses

ASSUME MainsAssumption ==
    /\ NoOne \notin Mains /\ Gone \notin Mains /\ NoOne # Gone
    /\ InDocker \subseteq Mains
    /\ MaxChecks \in [Mains -> Nat \ {0}]

VARIABLES
    key,               \* the name under the leader key, external
    phase,             \* phase[m]: how far the process is with its start or its end
    instanceRole,      \* what the process takes itself for
    sent,              \* commands Redis has not carried out yet
    replies,           \* answers the process has not acted upon yet
    renewing,          \* processes that have set or extended the key themselves
    refused,           \* mains whose try failed because the key had their own name, since
                       \* they last set it (for the properties)
    stops, lapses

redis == <<key, sent, replies, renewing, refused>>
election == <<redis, phase, instanceRole, stops, lapses>>

\* From the first try to become leader, over the set-up of the services, to the
\* end in the steps of stopProcess.
Phases == {"down", "joining", "starting", "loading", "serving", "up",
           "stopping", "leaving", "clearing", "draining"}
Commands == {"get", "set", "del"}
Answers == [command : Commands, found : Mains \cup {NoOne, Gone}]
Reply(c, f) == [command |-> c, found |-> f]

\* The interval of checkLeader is set.
Checks(m) == phase[m] \in {"starting", "loading", "serving", "up",
                           "stopping", "leaving"}

ElectionInit ==
    /\ key = NoOne
    /\ phase = [m \in Mains |-> "down"]
    /\ instanceRole = [m \in Mains |-> "unset"]
    /\ sent = [m \in Mains |-> << >>] /\ replies = [m \in Mains |-> << >>]
    /\ renewing = {} /\ refused = {}
    /\ stops = 0 /\ lapses = 0

SendTo(m, c) == sent' = [sent EXCEPT ![m] = Append(@, c)]

Enter(m, p) == phase' = [phase EXCEPT ![m] = p]

-----------------------------------------------------------------------------
(* Redis, external *)

\* GET, SET ... NX or DEL is carried out, and its answer is on its way.
Serve(m) ==
    /\ sent[m] # << >>
    /\ LET c == Head(sent[m])
           won == c = "set" /\ key = NoOne
       IN  /\ key' = CASE won -> m [] c = "del" -> NoOne [] OTHER -> key
           /\ replies' = [replies EXCEPT ![m] =
                             Append(@, Reply(c, IF c = "set" /\ ~won THEN NoOne ELSE key'))]
           /\ renewing' = IF won THEN renewing \cup {m} ELSE renewing
           /\ refused' = CASE won -> refused \ {m}
                           [] c = "set" /\ key = m -> refused \cup {m}
                           [] OTHER -> refused
    /\ sent' = [sent EXCEPT ![m] = Tail(@)]
    /\ UNCHANGED <<phase, instanceRole, stops, lapses>>

\* The key lives: the process it names has set or extended it, and goes on to.
Renewed == key \in renewing /\ phase[key] # "draining"

\* The life of the key is over: nobody has extended it ...
Expire ==
    /\ key # NoOne /\ ~Renewed
    /\ key' = NoOne
    /\ UNCHANGED <<phase, instanceRole, sent, replies, renewing, refused, stops, lapses>>

\* ... or its holder was late, or Redis has lost it.
Lapse ==
    /\ key # NoOne /\ Renewed /\ stops + lapses < MaxFaults
    /\ lapses' = lapses + 1
    /\ key' = NoOne
    /\ UNCHANGED <<phase, instanceRole, sent, replies, renewing, refused, stops>>

-----------------------------------------------------------------------------
(* A main process *)

\* MultiMainSetup.init: the first try comes before the interval.
Join(m) ==
    /\ phase[m] = "down"
    /\ Enter(m, "joining") /\ SendTo(m, "set")
    /\ UNCHANGED <<key, instanceRole, replies, renewing, refused, stops, lapses>>

\* The interval calls checkLeader, which asks who leads.  It does not wait for the
\* call before.
CheckLeader(m) ==
    /\ Checks(m) /\ Len(sent[m]) + Len(replies[m]) < MaxChecks[m]
    /\ SendTo(m, "get")
    /\ UNCHANGED <<key, phase, instanceRole, replies, renewing, refused, stops, lapses>>

\* What a main does with the answer it gets next.
Answer(m, c) == replies[m] # << >> /\ Head(replies[m]).command = c
Found(m) == Head(replies[m]).found
Consume(m) == replies' = [replies EXCEPT ![m] = Tail(@)]

\* checkLeader: this instance leads and extends the life of the key.
LeaderIsThisInstance(m) ==
    /\ Answer(m, "get") /\ Found(m) = m
    /\ Consume(m) /\ renewing' = renewing \cup {m}
    /\ UNCHANGED <<key, phase, instanceRole, sent, refused, stops, lapses>>

\* checkLeader: another instance leads; this one steps down if it had led.
LeaderIsOther(m) ==
    /\ Answer(m, "get") /\ Found(m) \notin {m, NoOne}
    /\ Consume(m)
    /\ instanceRole' = [instanceRole EXCEPT ![m] = IF @ = "leader" THEN "follower" ELSE @]
    /\ UNCHANGED <<key, phase, sent, renewing, refused, stops, lapses>>

\* A slip: the try is left to the next check, which does not make it either.
VacancyNoticed(m) ==
    /\ Answer(m, "get") /\ Found(m) = NoOne
    /\ Consume(m)
    /\ instanceRole' = [instanceRole EXCEPT ![m] = "follower"]
    /\ UNCHANGED <<key, phase, sent, renewing, refused, stops, lapses>>

\* checkLeader: nobody leads; this instance steps down in any case and tries.
LeadershipVacant(m) ==
    /\ Answer(m, "get") /\ Found(m) = NoOne
    /\ Consume(m)
    /\ instanceRole' = [instanceRole EXCEPT ![m] = "follower"]
    /\ SendTo(m, "set")
    /\ UNCHANGED <<key, phase, renewing, refused, stops, lapses>>

\* Slips: the answer to the try is not looked at; or checkLeader gives the role up after
\* the try instead of before it.
TriedToBecomeLeaderIs(m, role) ==
    /\ Answer(m, "set")
    /\ Consume(m)
    /\ instanceRole' = [instanceRole EXCEPT ![m] = role]
    /\ phase' = [phase EXCEPT ![m] = IF @ = "joining" THEN "starting" ELSE @]
    /\ UNCHANGED <<key, sent, renewing, refused, stops, lapses>>
TriedIsEnough(m) == TriedToBecomeLeaderIs(m, "leader")
StepDownLast(m) ==
    TriedToBecomeLeaderIs(m, IF Found(m) = m /\ phase[m] = "joining" THEN "leader" ELSE "follower")

\* tryBecomeLeader: whoever has set the key leads, any other follows.  The first
\* time init goes on, and sets the interval.
TriedToBecomeLeader(m) ==
    /\ Answer(m, "set")
    /\ Consume(m)
    /\ instanceRole' = [instanceRole EXCEPT ![m] = IF Found(m) = m THEN "leader" ELSE "follower"]
    /\ phase' = [phase EXCEPT ![m] = IF @ = "joining" THEN "starting" ELSE @]
    /\ UNCHANGED <<key, sent, renewing, refused, stops, lapses>>

HandleReply(m) ==
    \/ LeaderIsThisInstance(m) \/ LeaderIsOther(m)
    \/ LeadershipVacant(m) \/ TriedToBecomeLeader(m)

\* The event a reply makes checkLeader or tryBecomeLeader emit.
Emitted(m) ==
    CASE Answer(m, "get") /\ (Found(m) = NoOne \/ (Found(m) # m /\ instanceRole[m] = "leader"))
            -> "leader-stepdown"
      [] Answer(m, "set") /\ Found(m) = m -> "leader-takeover"
      [] OTHER -> "none"

\* The set-up of services goes on by a step.
StartUp(m, from, to) ==
    /\ phase[m] = from /\ Enter(m, to)
    /\ UNCHANGED <<key, instanceRole, sent, replies, renewing, refused, stops, lapses>>

\* A signal: the services' own shutdown handlers have run.
BeginStop(m) ==
    /\ phase[m] = "up" /\ stops + lapses < MaxFaults
    /\ Enter(m, "stopping") /\ stops' = stops + 1
    /\ UNCHANGED <<key, instanceRole, sent, replies, renewing, refused, lapses>>

\* stopProcess, up to the end of multi-main.
LeaveTracking(m) ==
    /\ phase[m] = "stopping" /\ Enter(m, "leaving")
    /\ UNCHANGED <<key, instanceRole, sent, replies, renewing, refused, stops, lapses>>

\* MultiMainSetup.shutdown: no more checks, and a leader clears the key; then the
\* connection is closed, with what is under way on it.
Shutdown(m) ==
    /\ phase[m] = "leaving"
    /\ IF instanceRole[m] = "leader"
       THEN Enter(m, "clearing") /\ SendTo(m, "del") /\ UNCHANGED replies
       ELSE /\ Enter(m, "draining")
            /\ sent' = [sent EXCEPT ![m] = << >>]
            /\ replies' = [replies EXCEPT ![m] = << >>]
    /\ UNCHANGED <<key, instanceRole, renewing, refused, stops, lapses>>

\* The key has been cleared, and the connection is closed.
Cleared(m) ==
    /\ phase[m] = "clearing" /\ Answer(m, "del")
    /\ Enter(m, "draining")
    /\ sent' = [sent EXCEPT ![m] = << >>]
    /\ replies' = [replies EXCEPT ![m] = << >>]
    /\ UNCHANGED <<key, instanceRole, renewing, refused, stops, lapses>>

\* The process ends; if its name ends with it, a key that has the name is nobody's.
End(m) ==
    /\ Enter(m, "down")
    /\ instanceRole' = [instanceRole EXCEPT ![m] = "unset"]
    /\ sent' = [sent EXCEPT ![m] = << >>] /\ replies' = [replies EXCEPT ![m] = << >>]
    /\ key' = IF key = m /\ m \notin InDocker THEN Gone ELSE key
    /\ renewing' = renewing \ {m} /\ refused' = refused \ {m}
    /\ UNCHANGED lapses

\* The executions of a process that shuts down have ended.
Exit(m) == phase[m] = "draining" /\ End(m) /\ UNCHANGED stops

\* Commands on their way may have been carried out before (Serve) or are lost.
Crash(m) == phase[m] # "down" /\ stops + lapses < MaxFaults /\ End(m) /\ stops' = stops + 1

-----------------------------------------------------------------------------
MainNext(m) ==
    \/ Serve(m) \/ Join(m) \/ CheckLeader(m) \/ HandleReply(m)
    \/ StartUp(m, "starting", "loading") \/ StartUp(m, "loading", "serving")
    \/ StartUp(m, "serving", "up")
    \/ BeginStop(m) \/ LeaveTracking(m) \/ Shutdown(m) \/ Cleared(m) \/ Exit(m) \/ Crash(m)

ElectionNext == Expire \/ Lapse \/ \E m \in Mains : MainNext(m)

ElectionSpec == ElectionInit /\ [][ElectionNext]_election

-----------------------------------------------------------------------------
(* Properties *)

Running == {m \in Mains : Checks(m)}
Quiet(m) == sent[m] = << >> /\ replies[m] = << >>

\* Type invariant of the election.
ElectionTypeOK ==
    /\ key \in Mains \cup {NoOne, Gone}
    /\ phase \in [Mains -> Phases]
    /\ instanceRole \in [Mains -> {"unset", "leader", "follower"}]
    /\ sent \in [Mains -> Seq(Commands)]
    /\ replies \in [Mains -> Seq(Answers)]
    /\ renewing \subseteq Mains /\ refused \subseteq Mains
    /\ stops \in Nat /\ lapses \in Nat

\* A main that takes itself for the leader is the one the key names, as long as no key
\* is lost while it is being extended: at most one leads, whatever processes crash,
\* start again, or clear the key when they shut down.
LeaderHoldsKey ==
    lapses = 0 => \A m \in Running : instanceRole[m] = "leader" => key = m

\* A follower that holds the key and will not give it up: tryBecomeLeader takes the
\* refusal by its own name for that of another main.
HoldsAsFollower(m) == key = m /\ m \in refused

\* A main the key names, and that awaits no answer, leads, however many of its checks
\* overlap and whatever name it has when it is started again: no key is extended for
\* ever by a follower while nobody leads.  The one exception the code makes is a main
\* whose own name refused it, because a check before this one, or the process before
\* this one, had set the key.
HolderLeads ==
    \A m \in Running : key = m /\ Quiet(m) /\ ~HoldsAsFollower(m) => instanceRole[m] = "leader"

\* "Designates leader and followers when running multiple main processes": in the end
\* one of the running mains leads, the others do not, and the key names it, unless a
\* main holds the key as a follower (see HolderLeads).
OneLeaderInTheEnd ==
    <>[](Running = {} \/ \E m \in Running :
            HoldsAsFollower(m) \/ (key = m /\ \A n \in Running : instanceRole[n] = "leader" <=> n = m))
=============================================================================
