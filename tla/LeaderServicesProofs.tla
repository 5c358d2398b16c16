------------------------ MODULE LeaderServicesProofs ------------------------
(***************************************************************************)
(* Proofs about MultiMainSetup and LeaderServices: a leader holds the key,  *)
(* the holder of the key leads, and one main at a time looks for waiting    *)
(* executions.                                                             *)
(***************************************************************************)
EXTENDS LeaderServices, TLAPS

(* Sequences of commands and of replies *)

In(v, s) == \E i \in 1..Len(s) : s[i] = v
AtMostOnce(v, s) == \A i, j \in 1..Len(s) : s[i] = v /\ s[j] = v => i = j

LEMMA AppendFacts ==
    ASSUME NEW S, NEW s \in Seq(S), NEW e \in S
    PROVE  /\ Append(s, e) \in Seq(S)
           /\ Len(Append(s, e)) = Len(s) + 1
           /\ Append(s, e) # << >>
           /\ \A v : In(v, Append(s, e)) => In(v, s) \/ v = e
           /\ \A v : AtMostOnce(v, s) /\ v # e => AtMostOnce(v, Append(s, e))
           /\ ~In(e, s) => AtMostOnce(e, Append(s, e))
  <1> DEFINE t == Append(s, e)
  <1>1. t \in Seq(S) /\ Len(t) = Len(s) + 1 /\ Len(s) \in Nat
    OBVIOUS
  <1>2. \A i \in 1..Len(t) : IF i = Len(s) + 1 THEN t[i] = e ELSE i \in 1..Len(s) /\ t[i] = s[i]
    OBVIOUS
  <1>3. \A v : In(v, t) => In(v, s) \/ v = e
    BY <1>1, <1>2 DEF In
  <1>4. \A v : AtMostOnce(v, s) /\ v # e => AtMostOnce(v, t)
    BY <1>1, <1>2 DEF AtMostOnce
  <1>5. ~In(e, s) => AtMostOnce(e, t)
    BY <1>1, <1>2 DEF In, AtMostOnce
  <1>6. QED
    BY <1>1, <1>3, <1>4, <1>5

LEMMA TailFacts ==
    ASSUME NEW S, NEW s \in Seq(S), s # << >>
    PROVE  /\ Tail(s) \in Seq(S) /\ Head(s) \in S /\ In(Head(s), s)
           /\ Len(Tail(s)) = Len(s) - 1
           /\ \A v : In(v, Tail(s)) => In(v, s)
           /\ \A v : AtMostOnce(v, s) => AtMostOnce(v, Tail(s))
           /\ AtMostOnce(Head(s), s) => ~In(Head(s), Tail(s))
  <1> DEFINE t == Tail(s)
  <1>1. t \in Seq(S) /\ Len(t) = Len(s) - 1 /\ Len(s) \in Nat \ {0} /\ Head(s) = s[1] /\ Head(s) \in S
    OBVIOUS
  <1>2. \A i \in 1..Len(t) : t[i] = s[i + 1] /\ i + 1 \in 1..Len(s)
    OBVIOUS
  <1>3. In(Head(s), s) /\ \A v : In(v, t) => In(v, s)
    BY <1>1, <1>2 DEF In
  <1>4. \A v : AtMostOnce(v, s) => AtMostOnce(v, t)
    BY <1>1, <1>2 DEF AtMostOnce
  <1>5. AtMostOnce(Head(s), s) => ~In(Head(s), t)
    <2>1. SUFFICES ASSUME AtMostOnce(Head(s), s), NEW i \in 1..Len(t), t[i] = Head(s) PROVE FALSE
      BY DEF In
    <2>2. s[i + 1] = s[1] /\ i + 1 \in 1..Len(s) /\ 1 \in 1..Len(s) /\ i + 1 # 1
      BY <1>1, <1>2, <2>1
    <2>3. QED
      BY <1>1, <2>1, <2>2 DEF AtMostOnce
  <1>6. QED
    BY <1>1, <1>3, <1>4, <1>5

LEMMA EmptyFacts == \A v : ~In(v, << >>) /\ AtMostOnce(v, << >>)
  BY DEF In, AtMostOnce

LEMMA EmptyByLength == ASSUME NEW S, NEW s \in Seq(S), Len(s) = 0 PROVE s = << >>
  OBVIOUS

-----------------------------------------------------------------------------
(* The steps of the election *)

\* What a step of one main leaves to the others.
LEMMA OthersKeep ==
    ASSUME ElectionTypeOK, NEW m \in Mains, MainNext(m), NEW n \in Mains \ {m}
    PROVE  /\ phase'[n] = phase[n] /\ instanceRole'[n] = instanceRole[n]
           /\ sent'[n] = sent[n] /\ replies'[n] = replies[n]
           /\ (n \in renewing' <=> n \in renewing) /\ (n \in refused' <=> n \in refused)
  BY DEF ElectionTypeOK, MainNext, HandleReply, Serve, Join, CheckLeader, LeaderIsThisInstance,
         LeaderIsOther, LeadershipVacant, TriedToBecomeLeader, TriedToBecomeLeaderIs, StartUp,
         BeginStop, LeaveTracking, Shutdown, Cleared, Exit, Crash, End, Enter, SendTo, Consume

\* What a main finds at the head of its commands and of its answers.
LEMMA HeadsAreTyped ==
    ASSUME ElectionTypeOK, NEW m \in Mains
    PROVE  /\ sent[m] \in Seq(Commands) /\ replies[m] \in Seq(Answers)
           /\ Len(sent[m]) \in Nat /\ Len(replies[m]) \in Nat
           /\ sent[m] # << >> =>
                 /\ Head(sent[m]) \in Commands /\ Tail(sent[m]) \in Seq(Commands)
                 /\ Len(Tail(sent[m])) = Len(sent[m]) - 1
           /\ replies[m] # << >> =>
                 /\ Head(replies[m]) \in Answers /\ Tail(replies[m]) \in Seq(Answers)
                 /\ Found(m) \in Mains \cup {NoOne, Gone}
                 /\ Head(replies[m]) = Reply(Head(replies[m]).command, Found(m))
                 /\ Len(Tail(replies[m])) = Len(replies[m]) - 1
  <1>1. sent[m] \in Seq(Commands) /\ replies[m] \in Seq(Answers)
    BY DEF ElectionTypeOK
  <1>2. sent[m] # << >> =>
           /\ Head(sent[m]) \in Commands /\ Tail(sent[m]) \in Seq(Commands)
           /\ Len(Tail(sent[m])) = Len(sent[m]) - 1
    BY <1>1, TailFacts
  <1>3. replies[m] # << >> =>
           /\ Head(replies[m]) \in Answers /\ Tail(replies[m]) \in Seq(Answers)
           /\ Len(Tail(replies[m])) = Len(replies[m]) - 1
    BY <1>1, TailFacts
  <1>4. \A r \in Answers : r.found \in Mains \cup {NoOne, Gone} /\ r = Reply(r.command, r.found)
    BY DEF Answers, Reply
  <1>5. QED
    BY <1>1, <1>2, <1>3, <1>4 DEF Found

\* The five ways to change the commands and the answers of a main.
LEMMA ServeFacts ==
    ASSUME ElectionTypeOK, NEW m \in Mains, Serve(m)
    PROVE  LET c == Head(sent[m])
               f == IF c = "set" /\ key # NoOne THEN NoOne ELSE key'
           IN  /\ sent[m] # << >> /\ c \in Commands /\ f \in Mains \cup {NoOne, Gone}
               /\ key' \in Mains \cup {NoOne, Gone}
               /\ key' = IF c = "set" /\ key = NoOne THEN m
                         ELSE IF c = "del" THEN NoOne ELSE key
               /\ sent' = [sent EXCEPT ![m] = Tail(sent[m])]
               /\ replies' = [replies EXCEPT ![m] = Append(replies[m], Reply(c, f))]
               /\ Reply(c, f) \in Answers
               /\ renewing' = IF c = "set" /\ key = NoOne THEN renewing \cup {m} ELSE renewing
               /\ refused' = IF c = "set" /\ key = NoOne THEN refused \ {m}
                             ELSE IF c = "set" /\ key = m THEN refused \cup {m} ELSE refused
               /\ UNCHANGED <<phase, instanceRole, stops, lapses>>
  <1> DEFINE c == Head(sent[m])
             f == IF c = "set" /\ key # NoOne THEN NoOne ELSE key'
  <1>1. sent[m] # << >> /\ c \in Commands
    BY HeadsAreTyped DEF Serve
  <1>2. key' = IF c = "set" /\ key = NoOne THEN m ELSE IF c = "del" THEN NoOne ELSE key
    <2>1. CASE c = "set" /\ key = NoOne
      BY <2>1 DEF Serve
    <2>2. CASE c = "del"
      BY <2>2 DEF Serve
    <2>3. CASE ~(c = "set" /\ key = NoOne) /\ c # "del"
      BY <2>3 DEF Serve
    <2>4. QED
      BY <2>1, <2>2, <2>3
  <1>3. key' \in Mains \cup {NoOne, Gone} /\ f \in Mains \cup {NoOne, Gone}
    BY <1>2 DEF ElectionTypeOK
  <1>4. replies' = [replies EXCEPT ![m] = Append(replies[m], Reply(c, f))]
    <2>1. (IF c = "set" /\ ~(c = "set" /\ key = NoOne) THEN NoOne ELSE key') = f
      OBVIOUS
    <2>2. QED
      BY <2>1 DEF Serve
  <1>5. Reply(c, f) \in Answers
    BY <1>1, <1>3 DEF Reply, Answers
  <1>6. /\ renewing' = IF c = "set" /\ key = NoOne THEN renewing \cup {m} ELSE renewing
        /\ refused' = IF c = "set" /\ key = NoOne THEN refused \ {m}
                      ELSE IF c = "set" /\ key = m THEN refused \cup {m} ELSE refused
    <2>1. CASE c = "set" /\ key = NoOne
      BY <2>1, MainsAssumption DEF Serve
    <2>2. CASE ~(c = "set" /\ key = NoOne) /\ c = "set" /\ key = m
      BY <2>2 DEF Serve
    <2>3. CASE ~(c = "set" /\ key = NoOne) /\ ~(c = "set" /\ key = m)
      BY <2>3 DEF Serve
    <2>4. QED
      BY <2>1, <2>2, <2>3
  <1>7. QED
    BY <1>1, <1>2, <1>3, <1>4, <1>5, <1>6 DEF Serve

LEMMA ElectionTypeStep ==
    ASSUME ElectionTypeOK, [ElectionNext]_election
    PROVE  ElectionTypeOK'
  <1> USE DEF ElectionTypeOK
  <1>1. ASSUME UNCHANGED election PROVE ElectionTypeOK'
    BY <1>1 DEF election, redis
  <1>2. ASSUME Expire \/ Lapse PROVE ElectionTypeOK'
    BY <1>2 DEF Expire, Lapse
  <1>3. ASSUME NEW m \in Mains, MainNext(m) PROVE ElectionTypeOK'
    <2> USE DEF Enter, SendTo, Phases
    <2>0. /\ sent[m] \in Seq(Commands) /\ replies[m] \in Seq(Answers)
          /\ \A c \in Commands : Append(sent[m], c) \in Seq(Commands)
          /\ replies[m] # << >> => Tail(replies[m]) \in Seq(Answers)
          /\ {"get", "set", "del"} = Commands
          /\ << >> \in Seq(Commands) /\ << >> \in Seq(Answers)
      BY HeadsAreTyped, AppendFacts DEF Commands
    <2>1. CASE Serve(m)
      <3>1. Tail(sent[m]) \in Seq(Commands)
        BY <2>1, ServeFacts, HeadsAreTyped
      <3>2. \A r \in Answers : Append(replies[m], r) \in Seq(Answers)
        BY <2>0, AppendFacts
      <3>3. \E r \in Answers : replies' = [replies EXCEPT ![m] = Append(replies[m], r)]
        BY <2>1, ServeFacts
      <3>4. /\ sent' = [sent EXCEPT ![m] = Tail(sent[m])] /\ key' \in Mains \cup {NoOne, Gone}
            /\ UNCHANGED <<phase, instanceRole, stops, lapses>>
            /\ renewing' \in {renewing, renewing \cup {m}}
            /\ refused' \in {refused, refused \ {m}, refused \cup {m}}
        BY <2>1, ServeFacts
      <3>5. replies' \in [Mains -> Seq(Answers)]
        BY <3>2, <3>3
      <3>6. sent' \in [Mains -> Seq(Commands)]
        BY <3>1, <3>4
      <3>7. QED
        BY <3>4, <3>5, <3>6
    <2>2. CASE Join(m)
      BY <2>0, <2>2 DEF Join
    <2>3. CASE CheckLeader(m)
      BY <2>0, <2>3 DEF CheckLeader
    <2>4. CASE LeaderIsThisInstance(m)
      BY <2>0, <2>4 DEF LeaderIsThisInstance, Answer, Consume
    <2>5. CASE LeaderIsOther(m)
      BY <2>0, <2>5 DEF LeaderIsOther, Answer, Consume
    <2>6. CASE LeadershipVacant(m)
      BY <2>0, <2>6 DEF LeadershipVacant, Answer, Consume
    <2>7. CASE TriedToBecomeLeader(m)
      BY <2>0, <2>7 DEF TriedToBecomeLeader, TriedToBecomeLeaderIs, Answer, Consume
    <2>8. CASE \/ StartUp(m, "starting", "loading") \/ StartUp(m, "loading", "serving")
               \/ StartUp(m, "serving", "up") \/ LeaveTracking(m)
      BY <2>8 DEF StartUp, LeaveTracking
    <2>9. CASE BeginStop(m)
      BY <2>9 DEF BeginStop
    <2>10. CASE Shutdown(m)
      BY <2>0, <2>10 DEF Shutdown
    <2>11. CASE Cleared(m)
      BY <2>0, <2>11 DEF Cleared
    <2>12. CASE Exit(m) \/ Crash(m)
      <3>1. End(m) /\ stops' \in Nat
        BY <2>12 DEF Exit, Crash
      <3>2. key' \in Mains \cup {NoOne, Gone}
        BY <3>1 DEF End
      <3>3. QED
        BY <2>0, <3>1, <3>2 DEF End
    <2>13. QED
      BY <1>3, <2>1, <2>2, <2>3, <2>4, <2>5, <2>6, <2>7, <2>8, <2>9, <2>10, <2>11, <2>12
         DEF MainNext, HandleReply
  <1>4. QED
    BY <1>1, <1>2, <1>3 DEF ElectionNext

-----------------------------------------------------------------------------
(* A leader holds the key *)

\* What makes a main sure of the key: it leads, it is about to delete the key, or an
\* answer is on its way that tells it that it has set the key.
Claims(m) ==
    \/ Checks(m) /\ instanceRole[m] = "leader"
    \/ In("del", sent[m])
    \/ (Checks(m) \/ phase[m] = "joining") /\ In(Reply("set", m), replies[m])

\* Ended processes have nothing on its way, and the key is deleted once, at the end.
Tidy(m) ==
    /\ phase[m] \in {"down", "draining"} => Quiet(m)
    /\ AtMostOnce("del", sent[m])
    /\ In("del", sent[m]) => phase[m] = "clearing"

KeyInv ==
    /\ ElectionTypeOK
    /\ \A m \in Mains : Tidy(m) /\ (Claims(m) => m \in renewing)
    /\ lapses = 0 => \A m \in Mains : Claims(m) => key = m

\* One main's step: it stays tidy, is still sure of the key only if it has it, and
\* takes the key from nobody.
KeyStep(m) ==
    /\ Tidy(m)' /\ lapses' = lapses /\ (Claims(m)' => m \in renewing')
    /\ lapses = 0 => /\ Claims(m)' => key' = m
                     /\ key' = key \/ key \in {NoOne, m}

LEMMA KeyOfServe ==
    ASSUME KeyInv, NEW m \in Mains, Serve(m)
    PROVE  KeyStep(m)
  <1> DEFINE c == Head(sent[m])
             f == IF c = "set" /\ key # NoOne THEN NoOne ELSE key'
  <1>1. /\ ElectionTypeOK /\ sent[m] # << >> /\ c \in Commands
        /\ key' = IF c = "set" /\ key = NoOne THEN m ELSE IF c = "del" THEN NoOne ELSE key
        /\ sent' = [sent EXCEPT ![m] = Tail(sent[m])]
        /\ replies' = [replies EXCEPT ![m] = Append(replies[m], Reply(c, f))]
        /\ Reply(c, f) \in Answers
        /\ renewing' = IF c = "set" /\ key = NoOne THEN renewing \cup {m} ELSE renewing
        /\ UNCHANGED <<phase, instanceRole, stops, lapses>>
    BY ServeFacts DEF KeyInv
  <1>2. /\ sent'[m] = Tail(sent[m]) /\ replies'[m] = Append(replies[m], Reply(c, f))
        /\ phase'[m] = phase[m] /\ instanceRole'[m] = instanceRole[m] /\ lapses' = lapses
    BY <1>1 DEF ElectionTypeOK
  <1>3. /\ In(c, sent[m]) /\ \A v : In(v, Tail(sent[m])) => In(v, sent[m])
        /\ AtMostOnce("del", Tail(sent[m])) /\ (c = "del" => ~In("del", Tail(sent[m])))
    BY <1>1, TailFacts DEF ElectionTypeOK, KeyInv, Tidy
  <1>4. Tidy(m)'
    <2>1. phase[m] \notin {"down", "draining"}
      BY <1>1 DEF KeyInv, Tidy, Quiet
    <2>2. QED
      BY <1>2, <1>3, <2>1 DEF KeyInv, Tidy
  <1>5. \A v : In(v, replies'[m]) => In(v, replies[m]) \/ v = Reply(c, f)
    BY <1>1, <1>2, AppendFacts DEF ElectionTypeOK
  <1>6. ASSUME Claims(m)' PROVE m \in renewing' /\ (lapses = 0 => key' = m)
    <2>1. CASE c = "del"
      <3>1. phase[m] = "clearing" /\ ~In("del", sent'[m])
        BY <1>2, <1>3, <2>1 DEF KeyInv, Tidy
      <3>2. QED
        BY <1>2, <1>6, <3>1 DEF Claims, Checks
    <2>2. CASE c # "del" /\ ~(c = "set" /\ key = NoOne)
      <3>1. key' = key
        BY <1>1, <2>2
      <3>2. Reply(c, f) # Reply("set", m)
        BY <2>2, MainsAssumption DEF Reply
      <3>3. Claims(m)
        BY <1>2, <1>3, <1>5, <1>6, <3>2 DEF Claims, Checks
      <3>4. QED
        BY <1>1, <1>6, <2>2, <3>1, <3>3 DEF KeyInv
    <2>3. CASE c = "set" /\ key = NoOne
      BY <1>1, <2>3
    <2>4. QED
      BY <2>1, <2>2, <2>3
  <1>7. ASSUME lapses = 0 PROVE key' = key \/ key \in {NoOne, m}
    <2>1. c = "del" => key = m
      BY <1>3, <1>7 DEF KeyInv, Claims
    <2>2. QED
      BY <1>1, <2>1
  <1>8. QED
    BY <1>2, <1>4, <1>6, <1>7 DEF KeyStep

LEMMA KeyOfMain ==
    ASSUME KeyInv, NEW m \in Mains, MainNext(m)
    PROVE  KeyStep(m)
  <1>0. /\ ElectionTypeOK /\ Tidy(m) /\ (lapses = 0 /\ Claims(m) => key = m)
        /\ (Claims(m) => m \in renewing)
        /\ sent[m] \in Seq(Commands) /\ replies[m] \in Seq(Answers)
    BY HeadsAreTyped DEF KeyInv
  <1>1. \A v : ~In(v, << >>) /\ AtMostOnce(v, << >>)
    BY EmptyFacts
  <1>a. ASSUME NEW d \in Commands, d # "del"
        PROVE  /\ \A v : In(v, Append(sent[m], d)) => In(v, sent[m]) \/ v = d
               /\ AtMostOnce("del", Append(sent[m], d))
    BY <1>0, <1>a, AppendFacts DEF Tidy
  <1>t. replies[m] # << >> => \A v : In(v, Tail(replies[m])) => In(v, replies[m])
    BY <1>0, TailFacts
  <1>2. CASE Serve(m)
    BY <1>2, KeyOfServe
  <1>3. CASE Join(m)
    <2>1. /\ sent'[m] = Append(sent[m], "set") /\ replies'[m] = replies[m] /\ phase'[m] = "joining"
          /\ key' = key /\ lapses' = lapses /\ phase[m] = "down" /\ renewing' = renewing
      BY <1>0, <1>3 DEF Join, SendTo, Enter, ElectionTypeOK
    <2>2. ~In("del", sent'[m]) /\ AtMostOnce("del", sent'[m]) /\ replies'[m] = << >>
      BY <1>0, <1>a, <2>1 DEF Tidy, Quiet, Commands
    <2>3. QED
      BY <1>1, <2>1, <2>2 DEF KeyStep, Tidy, Claims, Checks
  <1>4. CASE CheckLeader(m)
    <2>1. /\ sent'[m] = Append(sent[m], "get") /\ replies'[m] = replies[m] /\ phase'[m] = phase[m]
          /\ key' = key /\ lapses' = lapses /\ Checks(m) /\ instanceRole'[m] = instanceRole[m]
          /\ renewing' = renewing
      BY <1>0, <1>4 DEF CheckLeader, SendTo, ElectionTypeOK
    <2>2. ~In("del", sent'[m]) /\ AtMostOnce("del", sent'[m])
      BY <1>0, <1>a, <2>1 DEF Tidy, Checks, Commands
    <2>3. QED
      BY <1>0, <2>1, <2>2 DEF KeyStep, Tidy, Claims, Checks
  <1>5. CASE LeaderIsThisInstance(m) \/ LeaderIsOther(m)
    <2>1. /\ sent'[m] = sent[m] /\ replies'[m] = Tail(replies[m]) /\ phase'[m] = phase[m]
          /\ key' = key /\ lapses' = lapses /\ replies[m] # << >> /\ renewing \subseteq renewing'
          /\ instanceRole'[m] = "leader" => instanceRole[m] = "leader"
      BY <1>0, <1>5 DEF LeaderIsThisInstance, LeaderIsOther, Answer, Consume, ElectionTypeOK
    <2>2. Claims(m)' => Claims(m)
      BY <1>t, <2>1 DEF Claims, Checks
    <2>3. phase[m] \notin {"down", "draining"}
      BY <1>0, <2>1 DEF Tidy, Quiet
    <2>4. QED
      BY <1>0, <2>1, <2>2, <2>3 DEF KeyStep, Tidy
  <1>6. CASE LeadershipVacant(m)
    <2>1. /\ sent'[m] = Append(sent[m], "set") /\ replies'[m] = Tail(replies[m])
          /\ phase'[m] = phase[m] /\ key' = key /\ lapses' = lapses /\ replies[m] # << >>
          /\ instanceRole'[m] = "follower" /\ renewing' = renewing
      BY <1>0, <1>6 DEF LeadershipVacant, Answer, Consume, SendTo, ElectionTypeOK
    <2>2. AtMostOnce("del", sent'[m]) /\ (In("del", sent'[m]) => In("del", sent[m]))
      BY <1>0, <1>a, <2>1 DEF Commands
    <2>3. Claims(m)' => Claims(m)
      BY <1>t, <2>1, <2>2 DEF Claims, Checks
    <2>4. phase[m] \notin {"down", "draining"}
      BY <1>0, <2>1 DEF Tidy, Quiet
    <2>5. QED
      BY <1>0, <2>1, <2>2, <2>3, <2>4 DEF KeyStep, Tidy
  <1>7. CASE TriedToBecomeLeader(m)
    <2>1. /\ sent'[m] = sent[m] /\ replies'[m] = Tail(replies[m]) /\ replies[m] # << >>
          /\ phase'[m] = (IF phase[m] = "joining" THEN "starting" ELSE phase[m])
          /\ key' = key /\ lapses' = lapses /\ renewing' = renewing
          /\ instanceRole'[m] = "leader" => Head(replies[m]) = Reply("set", m)
      BY <1>0, <1>7, HeadsAreTyped
         DEF TriedToBecomeLeader, TriedToBecomeLeaderIs, Answer, Consume, ElectionTypeOK
    <2>2. Claims(m)' => Claims(m)
      <3>1. Checks(m)' => Checks(m) \/ phase[m] = "joining"
        BY <2>1 DEF Checks
      <3>2. instanceRole'[m] = "leader" => In(Reply("set", m), replies[m])
        BY <1>0, <2>1, TailFacts
      <3>3. phase'[m] # "joining"
        BY <2>1
      <3>4. QED
        BY <1>t, <2>1, <3>1, <3>2, <3>3 DEF Claims
    <2>3. phase[m] \notin {"down", "draining"}
      BY <1>0, <2>1 DEF Tidy, Quiet
    <2>4. QED
      BY <1>0, <2>1, <2>2, <2>3 DEF KeyStep, Tidy
  <1>8. CASE \/ StartUp(m, "starting", "loading") \/ StartUp(m, "loading", "serving")
             \/ StartUp(m, "serving", "up") \/ BeginStop(m) \/ LeaveTracking(m)
    <2>1. /\ sent'[m] = sent[m] /\ replies'[m] = replies[m] /\ instanceRole'[m] = instanceRole[m]
          /\ key' = key /\ lapses' = lapses /\ Checks(m) /\ Checks(m)' /\ renewing' = renewing
      BY <1>0, <1>8 DEF StartUp, BeginStop, LeaveTracking, Enter, Checks, ElectionTypeOK
    <2>2. Claims(m)' => Claims(m)
      BY <2>1 DEF Claims
    <2>3. QED
      BY <1>0, <2>1, <2>2 DEF KeyStep, Tidy, Checks
  <1>9. CASE Shutdown(m)
    <2>1. Checks(m) /\ key' = key /\ lapses' = lapses /\ renewing' = renewing
      BY <1>9 DEF Shutdown, Checks
    <2>2. ~In("del", sent[m])
      BY <1>0, <2>1 DEF Tidy, Checks
    <2>3. CASE instanceRole[m] = "leader"
      <3>1. sent'[m] = Append(sent[m], "del") /\ phase'[m] = "clearing"
        BY <1>0, <1>9, <2>3 DEF Shutdown, SendTo, Enter, ElectionTypeOK
      <3>2. AtMostOnce("del", sent'[m])
        BY <1>0, <2>2, <3>1, AppendFacts DEF Commands
      <3>3. QED
        BY <1>0, <2>1, <2>3, <3>1, <3>2 DEF KeyStep, Tidy, Claims, Checks
    <2>4. CASE instanceRole[m] # "leader"
      <3>1. sent'[m] = << >> /\ replies'[m] = << >> /\ phase'[m] = "draining"
        BY <1>0, <1>9, <2>4 DEF Shutdown, SendTo, Enter, ElectionTypeOK
      <3>2. QED
        BY <1>1, <2>1, <3>1 DEF KeyStep, Tidy, Quiet, Claims, Checks
    <2>5. QED
      BY <2>3, <2>4
  <1>10. CASE Cleared(m)
    <2>1. /\ sent'[m] = << >> /\ replies'[m] = << >> /\ phase'[m] = "draining"
          /\ key' = key /\ lapses' = lapses
      BY <1>0, <1>10 DEF Cleared, Enter, ElectionTypeOK
    <2>2. QED
      BY <1>1, <2>1 DEF KeyStep, Tidy, Quiet, Claims, Checks
  <1>11. CASE Exit(m) \/ Crash(m)
    <2>1. /\ sent'[m] = << >> /\ replies'[m] = << >> /\ phase'[m] = "down"
          /\ lapses' = lapses /\ (key' = key \/ key = m)
      BY <1>0, <1>11 DEF Exit, Crash, End, Enter, ElectionTypeOK
    <2>2. QED
      BY <1>1, <2>1 DEF KeyStep, Tidy, Quiet, Claims, Checks
  <1>12. QED
    BY <1>2, <1>3, <1>4, <1>5, <1>6, <1>7, <1>8, <1>9, <1>10, <1>11 DEF MainNext, HandleReply

LEMMA KeyInvStep ==
    ASSUME KeyInv, [ElectionNext]_election
    PROVE  KeyInv'
  <1>0. ElectionTypeOK /\ ElectionTypeOK'
    BY ElectionTypeStep DEF KeyInv
  <1>1. ASSUME UNCHANGED election PROVE KeyInv'
    BY <1>0, <1>1 DEF KeyInv, Tidy, Claims, Quiet, Checks, election, redis
  <1>2. ASSUME Expire PROVE KeyInv'
    <2>1. UNCHANGED <<phase, instanceRole, sent, replies, renewing, stops, lapses>>
      BY <1>2 DEF Expire
    <2>2. ASSUME NEW m \in Mains, Claims(m), key = m PROVE FALSE
      <3>1. ~Renewed
        BY <1>2 DEF Expire
      <3>2. phase[m] # "draining"
        BY <2>2, EmptyFacts DEF Claims, Checks, KeyInv, Tidy
      <3>3. QED
        BY <2>2, <3>1, <3>2 DEF Renewed, KeyInv
    <2>3. \A m \in Mains : (Claims(m)' <=> Claims(m)) /\ (Tidy(m)' <=> Tidy(m))
      BY <2>1 DEF Claims, Tidy, Quiet, Checks
    <2>4. QED
      BY <1>0, <2>1, <2>2, <2>3 DEF KeyInv
  <1>3. ASSUME Lapse PROVE KeyInv'
    <2>1. UNCHANGED <<phase, instanceRole, sent, replies, renewing, stops>> /\ lapses' # 0
      BY <1>0, <1>3 DEF Lapse, ElectionTypeOK
    <2>2. QED
      BY <1>0, <2>1 DEF KeyInv, Tidy, Quiet, Claims, Checks
  <1>4. ASSUME NEW m \in Mains, MainNext(m) PROVE KeyInv'
    <2>1. KeyStep(m)
      BY <1>4, KeyOfMain
    <2>2. ASSUME NEW n \in Mains \ {m}
          PROVE  Tidy(n)' /\ (Claims(n)' => n \in renewing') /\ (lapses = 0 /\ Claims(n)' => key' = n)
      <3>1. /\ phase'[n] = phase[n] /\ instanceRole'[n] = instanceRole[n]
            /\ sent'[n] = sent[n] /\ replies'[n] = replies[n] /\ (n \in renewing' <=> n \in renewing)
        BY <1>0, <1>4, OthersKeep
      <3>2. Tidy(n)' /\ (Claims(n)' => Claims(n))
        BY <3>1 DEF KeyInv, Tidy, Quiet, Claims, Checks
      <3>3. (lapses = 0 /\ Claims(n) => key = n) /\ (Claims(n) => n \in renewing)
        BY DEF KeyInv
      <3>4. QED
        BY <2>1, <3>1, <3>2, <3>3, MainsAssumption DEF KeyStep
    <2>3. QED
      BY <1>0, <2>1, <2>2 DEF KeyStep, KeyInv
  <1>5. QED
    BY <1>1, <1>2, <1>3, <1>4 DEF ElectionNext

\* Every step of the services' specification is one of the election, or none.
LEMMA NextElects == ASSUME [Next]_vars PROVE [ElectionNext]_election
  <1>1. ASSUME UNCHANGED vars PROVE UNCHANGED election
    BY <1>1 DEF vars, election, redis
  <1>2. ASSUME NEW m \in Mains, Election(m) PROVE MainNext(m)
    BY <1>2 DEF Election, Elect, InitTracking, RegisterEventHandlers, InitPruning, StopServices,
               StopTrackingFirst, Ends, MainNext
  <1>3. ASSUME NEW m \in Mains, Work(m) PROVE UNCHANGED election
    BY <1>3 DEF Work, PollWaiting, GetWaitingExecutions, StartExecution
  <1>4. QED
    BY <1>1, <1>2, <1>3 DEF Next, ElectionNext

LEMMA KeyInvInit == Init => KeyInv
  <1>1. SUFFICES ASSUME Init PROVE KeyInv
    OBVIOUS
  <1>2. ElectionTypeOK
    BY <1>1 DEF Init, ElectionInit, ElectionTypeOK, Phases, Commands, Answers
  <1>3. ASSUME NEW m \in Mains
        PROVE  phase[m] = "down" /\ sent[m] = << >> /\ replies[m] = << >>
    BY <1>1 DEF Init, ElectionInit
  <1>4. QED
    BY <1>2, <1>3, EmptyFacts DEF KeyInv, Tidy, Quiet, Claims, Checks

LEMMA KeyInvAlways == Spec => []KeyInv
  <1>1. KeyInv /\ [Next]_vars => KeyInv'
    BY NextElects, KeyInvStep
  <1>2. QED
    BY KeyInvInit, <1>1, PTL DEF Spec

\* A main that takes itself for the leader is the one the key names (tryBecomeLeader,
\* checkLeader, shutdown), for any number of mains, checks at a time, crashes and
\* restarts, as long as no key is lost while it is extended.
THEOREM LeadersHoldTheKey == Spec => []LeaderHoldsKey
  <1>1. KeyInv => LeaderHoldsKey
    BY DEF KeyInv, Claims, LeaderHoldsKey, Running
  <1>2. QED
    BY KeyInvAlways, <1>1, PTL

-----------------------------------------------------------------------------
(* The holder of the key leads *)

\* Answers: all those of s name m, or they do from the one on that tells m of its success.
Only(m, s) == \A i \in 1..Len(s) : s[i].found = m
Wins(m, s) ==
    \E i \in 1..Len(s) : s[i] = Reply("set", m) /\ \A j \in 1..Len(s) : j > i => s[j].found = m

LEMMA WinsAppend ==
    ASSUME NEW m, NEW s \in Seq(Answers), NEW r \in Answers
    PROVE  /\ Only(m, s) /\ r.found = m => Only(m, Append(s, r))
           /\ Wins(m, s) /\ r.found = m => Wins(m, Append(s, r))
           /\ r = Reply("set", m) => Wins(m, Append(s, r))
           /\ \A v : In(v, s) => In(v, Append(s, r))
  <1> DEFINE t == Append(s, r)
  <1>1. Len(t) = Len(s) + 1 /\ Len(s) \in Nat
    OBVIOUS
  <1>2. \A i \in 1..Len(t) : IF i = Len(s) + 1 THEN t[i] = r ELSE i \in 1..Len(s) /\ t[i] = s[i]
    OBVIOUS
  <1>3. Only(m, s) /\ r.found = m => Only(m, t)
    BY <1>1, <1>2 DEF Only
  <1>4. ASSUME Wins(m, s), r.found = m PROVE Wins(m, t)
    <2>1. PICK i \in 1..Len(s) : s[i] = Reply("set", m) /\ \A j \in 1..Len(s) : j > i => s[j].found = m
      BY <1>4 DEF Wins
    <2>2. i \in 1..Len(t) /\ t[i] = Reply("set", m)
      BY <1>1, <1>2, <2>1
    <2>3. \A j \in 1..Len(t) : j > i => t[j].found = m
      BY <1>1, <1>2, <1>4, <2>1
    <2>4. QED
      BY <2>2, <2>3 DEF Wins
  <1>5. ASSUME r = Reply("set", m) PROVE Wins(m, t)
    <2>1. Len(t) \in 1..Len(t) /\ t[Len(t)] = Reply("set", m)
      BY <1>1, <1>2, <1>5
    <2>2. \A j \in 1..Len(t) : ~(j > Len(t))
      BY <1>1
    <2>3. QED
      BY <2>1, <2>2 DEF Wins
  <1>6. \A v : In(v, s) => In(v, t)
    BY <1>1, <1>2 DEF In
  <1>7. QED
    BY <1>3, <1>4, <1>5, <1>6

LEMMA WinsTail ==
    ASSUME NEW m, NEW s \in Seq(Answers), s # << >>
    PROVE  /\ Only(m, s) => Head(s).found = m /\ Only(m, Tail(s))
           /\ Wins(m, s) => \/ Wins(m, Tail(s))
                            \/ Head(s) = Reply("set", m) /\ Only(m, Tail(s))
           /\ \A v : In(v, s) => v = Head(s) \/ In(v, Tail(s))
  <1> DEFINE t == Tail(s)
  <1>1. Len(t) = Len(s) - 1 /\ Len(s) \in Nat \ {0} /\ Head(s) = s[1]
    OBVIOUS
  <1>2. \A i \in 1..Len(t) : t[i] = s[i + 1] /\ i + 1 \in 1..Len(s)
    OBVIOUS
  <1>3. Only(m, s) => Head(s).found = m /\ Only(m, t)
    BY <1>1, <1>2 DEF Only
  <1>4. ASSUME Wins(m, s) PROVE Wins(m, t) \/ (Head(s) = Reply("set", m) /\ Only(m, t))
    <2>1. PICK i \in 1..Len(s) : s[i] = Reply("set", m) /\ \A j \in 1..Len(s) : j > i => s[j].found = m
      BY <1>4 DEF Wins
    <2>2. CASE i = 1
      <3>1. \A j \in 1..Len(t) : t[j].found = m
        BY <1>1, <1>2, <2>1, <2>2
      <3>2. QED
        BY <1>1, <2>1, <2>2, <3>1 DEF Only
    <2>3. CASE i # 1
      <3>1. i - 1 \in 1..Len(t) /\ t[i - 1] = Reply("set", m)
        BY <1>1, <1>2, <2>1, <2>3
      <3>2. \A j \in 1..Len(t) : j > i - 1 => t[j].found = m
        BY <1>1, <1>2, <2>1
      <3>3. QED
        BY <3>1, <3>2 DEF Wins
    <2>4. QED
      BY <2>2, <2>3
  <1>5. ASSUME NEW v, In(v, s), v # Head(s) PROVE In(v, t)
    <2>1. PICK i \in 1..Len(s) : s[i] = v
      BY <1>5 DEF In
    <2>2. i - 1 \in 1..Len(t) /\ t[i - 1] = v
      BY <1>1, <1>2, <1>5, <2>1
    <2>3. QED
      BY <2>2 DEF In
  <1>6. QED
    BY <1>3, <1>4, <1>5

\* What the holder of the key is about to do: it tries again, which its own name refuses,
\* or it hears of its success and then of nothing else, or it leads and hears of nothing
\* else.
Knows(m) ==
    \/ In("set", sent[m]) \/ In(Reply("get", NoOne), replies[m])
    \/ Wins(m, replies[m])
    \/ instanceRole[m] = "leader" /\ Only(m, replies[m])

HolderInv ==
    \A m \in Mains : Checks(m) \/ phase[m] = "joining" =>
        (key = m /\ m \notin refused => Knows(m))

\* One main's step keeps to it, and hands the key to nobody else.
HolderStep(m) ==
    /\ Checks(m)' \/ phase'[m] = "joining" => (key' = m /\ m \notin refused' => Knows(m)')
    /\ key' = key \/ key' \in {NoOne, Gone, m}

LEMMA HolderOfServe ==
    ASSUME KeyInv, HolderInv, NEW m \in Mains, Serve(m)
    PROVE  HolderStep(m)
  <1> DEFINE c == Head(sent[m])
             f == IF c = "set" /\ key # NoOne THEN NoOne ELSE key'
  <1>1. /\ ElectionTypeOK /\ sent[m] # << >> /\ c \in Commands
        /\ key' = IF c = "set" /\ key = NoOne THEN m ELSE IF c = "del" THEN NoOne ELSE key
        /\ sent' = [sent EXCEPT ![m] = Tail(sent[m])]
        /\ replies' = [replies EXCEPT ![m] = Append(replies[m], Reply(c, f))]
        /\ Reply(c, f) \in Answers
        /\ refused' = IF c = "set" /\ key = NoOne THEN refused \ {m}
                      ELSE IF c = "set" /\ key = m THEN refused \cup {m} ELSE refused
        /\ UNCHANGED <<phase, instanceRole>>
    BY ServeFacts DEF KeyInv
  <1>2. /\ sent'[m] = Tail(sent[m]) /\ replies'[m] = Append(replies[m], Reply(c, f))
        /\ phase'[m] = phase[m] /\ instanceRole'[m] = instanceRole[m]
        /\ sent[m] \in Seq(Commands) /\ replies[m] \in Seq(Answers)
    BY <1>1 DEF ElectionTypeOK
  <1>3. key' = key \/ key' \in {NoOne, Gone, m}
    BY <1>1
  <1>4. ASSUME Checks(m)' \/ phase'[m] = "joining", key' = m, m \notin refused'
        PROVE  Knows(m)'
    <2>0. Checks(m) \/ phase[m] = "joining"
      BY <1>2, <1>4 DEF Checks
    <2>1. CASE c = "set" /\ key = NoOne
      <3>1. Reply(c, f) = Reply("set", m)
        BY <1>1, <2>1
      <3>2. Wins(m, Append(replies[m], Reply(c, f)))
        BY <1>1, <1>2, <3>1, WinsAppend
      <3>3. QED
        BY <1>2, <3>2 DEF Knows
    <2>2. CASE ~(c = "set" /\ key = NoOne)
      <3>1. key = m /\ c # "del"
        BY <1>1, <1>4, <2>2, MainsAssumption
      <3>2. m \notin refused /\ c # "set"
        BY <1>1, <1>4, <2>2, <3>1
      <3>3. c = "get" /\ Reply(c, f).found = m
        BY <1>1, <3>1, <3>2 DEF Commands, Reply
      <3>4. In("set", sent[m]) => In("set", Tail(sent[m]))
        <4>1. ASSUME In("set", sent[m]) PROVE In("set", Tail(sent[m]))
          <5>1. PICK i \in 1..Len(sent[m]) : sent[m][i] = "set"
            BY <4>1 DEF In
          <5>2. i # 1
            BY <1>1, <1>2, <3>3, <5>1
          <5>3. i - 1 \in 1..Len(Tail(sent[m])) /\ Tail(sent[m])[i - 1] = "set"
            BY <1>1, <1>2, <5>1, <5>2
          <5>4. QED
            BY <5>3 DEF In
        <4>2. QED
          BY <4>1
      <3>5. Knows(m)
        BY <2>0, <3>1, <3>2 DEF HolderInv
      <3>6. LET t == Append(replies[m], Reply(c, f))
            IN  /\ In(Reply("get", NoOne), replies[m]) => In(Reply("get", NoOne), t)
                /\ Wins(m, replies[m]) => Wins(m, t)
                /\ Only(m, replies[m]) => Only(m, t)
        BY <1>1, <1>2, <3>3, WinsAppend
      <3>7. QED
        BY <1>2, <3>4, <3>5, <3>6 DEF Knows
    <2>3. QED
      BY <2>1, <2>2
  <1>5. QED
    BY <1>3, <1>4 DEF HolderStep

LEMMA HolderOfMain ==
    ASSUME KeyInv, HolderInv, NEW m \in Mains, MainNext(m)
    PROVE  HolderStep(m)
  <1> DEFINE Active == Checks(m) \/ phase[m] = "joining"
  <1>0. /\ ElectionTypeOK /\ (Active => (key = m /\ m \notin refused => Knows(m)))
        /\ sent[m] \in Seq(Commands) /\ replies[m] \in Seq(Answers)
    BY HeadsAreTyped DEF KeyInv, HolderInv
  <1>a. \A d \in Commands : \A v : In(v, sent[m]) \/ v = d => In(v, Append(sent[m], d))
    <2>1. SUFFICES ASSUME NEW d \in Commands, NEW v, In(v, sent[m]) \/ v = d
                   PROVE  In(v, Append(sent[m], d))
      OBVIOUS
    <2> DEFINE t == Append(sent[m], d)
    <2>2. /\ Len(t) = Len(sent[m]) + 1 /\ Len(sent[m]) \in Nat /\ t[Len(t)] = d
          /\ \A i \in 1..Len(sent[m]) : t[i] = sent[m][i]
      BY <1>0
    <2>3. QED
      BY <2>1, <2>2 DEF In
  <1>t. replies[m] # << >> =>
           /\ Only(m, replies[m]) => Found(m) = m /\ Only(m, Tail(replies[m]))
           /\ Wins(m, replies[m]) => \/ Wins(m, Tail(replies[m]))
                                     \/ Head(replies[m]) = Reply("set", m) /\ Only(m, Tail(replies[m]))
           /\ In(Reply("get", NoOne), replies[m]) =>
                 Head(replies[m]) = Reply("get", NoOne) \/ In(Reply("get", NoOne), Tail(replies[m]))
    BY <1>0, WinsTail DEF Found
  <1>f. \A d, f : Reply(d, f).command = d /\ Reply(d, f).found = f
    BY DEF Reply
  <1>2. CASE Serve(m)
    BY <1>2, HolderOfServe
  <1>3. CASE Join(m)
    <2>1. sent'[m] = Append(sent[m], "set") /\ key' = key
      BY <1>0, <1>3 DEF Join, SendTo, ElectionTypeOK
    <2>2. QED
      BY <1>a, <2>1 DEF HolderStep, Knows, Commands
  <1>4. CASE CheckLeader(m)
    <2>1. /\ sent'[m] = Append(sent[m], "get") /\ replies'[m] = replies[m] /\ phase'[m] = phase[m]
          /\ key' = key /\ refused' = refused /\ instanceRole'[m] = instanceRole[m]
      BY <1>0, <1>4 DEF CheckLeader, SendTo, ElectionTypeOK
    <2>2. Knows(m) => Knows(m)'
      BY <1>a, <2>1 DEF Knows, Commands
    <2>3. QED
      BY <1>0, <2>1, <2>2 DEF HolderStep, Checks
  <1>5. CASE LeaderIsThisInstance(m)
    <2>1. /\ sent'[m] = sent[m] /\ replies'[m] = Tail(replies[m]) /\ phase'[m] = phase[m]
          /\ key' = key /\ refused' = refused /\ instanceRole'[m] = instanceRole[m]
          /\ replies[m] # << >> /\ Head(replies[m]).command = "get" /\ Found(m) = m
      BY <1>0, <1>5 DEF LeaderIsThisInstance, Answer, Consume, ElectionTypeOK
    <2>2. Knows(m) => Knows(m)'
      BY <1>t, <1>f, <2>1, MainsAssumption DEF Knows, Found
    <2>3. QED
      BY <1>0, <2>1, <2>2 DEF HolderStep, Checks
  <1>6. CASE LeaderIsOther(m)
    <2>1. /\ sent'[m] = sent[m] /\ replies'[m] = Tail(replies[m]) /\ phase'[m] = phase[m]
          /\ key' = key /\ refused' = refused
          /\ replies[m] # << >> /\ Head(replies[m]).command = "get" /\ Found(m) \notin {m, NoOne}
      BY <1>0, <1>6 DEF LeaderIsOther, Answer, Consume, ElectionTypeOK
    <2>2. Knows(m) => Knows(m)'
      BY <1>t, <1>f, <2>1 DEF Knows, Found
    <2>3. QED
      BY <1>0, <2>1, <2>2 DEF HolderStep, Checks
  <1>7. CASE LeadershipVacant(m)
    <2>1. sent'[m] = Append(sent[m], "set") /\ key' = key
      BY <1>0, <1>7 DEF LeadershipVacant, SendTo, ElectionTypeOK
    <2>2. QED
      BY <1>a, <2>1 DEF HolderStep, Knows, Commands
  <1>8. CASE TriedToBecomeLeader(m)
    <2>1. /\ sent'[m] = sent[m] /\ replies'[m] = Tail(replies[m])
          /\ phase'[m] = (IF phase[m] = "joining" THEN "starting" ELSE phase[m])
          /\ key' = key /\ refused' = refused
          /\ replies[m] # << >> /\ Head(replies[m]).command = "set"
          /\ Found(m) = m => instanceRole'[m] = "leader"
      BY <1>0, <1>8
         DEF TriedToBecomeLeader, TriedToBecomeLeaderIs, Answer, Consume, ElectionTypeOK
    <2>2. Knows(m) => Knows(m)'
      BY <1>t, <1>f, <2>1 DEF Knows, Found
    <2>3. Checks(m)' => Active
      BY <2>1 DEF Checks
    <2>4. QED
      BY <1>0, <2>1, <2>2, <2>3 DEF HolderStep
  <1>9. CASE \/ StartUp(m, "starting", "loading") \/ StartUp(m, "loading", "serving")
             \/ StartUp(m, "serving", "up") \/ BeginStop(m) \/ LeaveTracking(m)
    <2>1. /\ sent'[m] = sent[m] /\ replies'[m] = replies[m] /\ instanceRole'[m] = instanceRole[m]
          /\ key' = key /\ refused' = refused /\ Checks(m)
      BY <1>0, <1>9 DEF StartUp, BeginStop, LeaveTracking, Enter, Checks, ElectionTypeOK
    <2>2. QED
      BY <1>0, <2>1 DEF HolderStep, Knows
  <1>10. CASE Shutdown(m) \/ Cleared(m) \/ Exit(m) \/ Crash(m)
    <2>1. /\ phase'[m] \in {"clearing", "draining", "down"}
          /\ key' = key \/ key' \in {NoOne, Gone, m}
      BY <1>0, <1>10 DEF Shutdown, Cleared, Exit, Crash, End, Enter, ElectionTypeOK
    <2>2. QED
      BY <2>1 DEF HolderStep, Checks
  <1>11. QED
    BY <1>2, <1>3, <1>4, <1>5, <1>6, <1>7, <1>8, <1>9, <1>10 DEF MainNext, HandleReply

LEMMA HolderInvStep ==
    ASSUME KeyInv, HolderInv, [ElectionNext]_election
    PROVE  HolderInv'
  <1>0. ElectionTypeOK
    BY DEF KeyInv
  <1>1. ASSUME UNCHANGED election PROVE HolderInv'
    BY <1>1 DEF HolderInv, Knows, Checks, election, redis
  <1>2. ASSUME Expire \/ Lapse PROVE HolderInv'
    <2>1. key' = NoOne
      BY <1>2 DEF Expire, Lapse
    <2>2. QED
      BY <2>1, MainsAssumption DEF HolderInv
  <1>3. ASSUME NEW m \in Mains, MainNext(m) PROVE HolderInv'
    <2>1. HolderStep(m)
      BY <1>3, HolderOfMain
    <2>2. ASSUME NEW n \in Mains \ {m}, Checks(n)' \/ phase'[n] = "joining", key' = n, n \notin refused'
          PROVE  Knows(n)'
      <3>1. /\ phase'[n] = phase[n] /\ instanceRole'[n] = instanceRole[n]
            /\ sent'[n] = sent[n] /\ replies'[n] = replies[n] /\ n \notin refused
        BY <1>0, <1>3, <2>2, OthersKeep
      <3>2. key = n
        BY <2>1, <2>2, MainsAssumption DEF HolderStep
      <3>3. Knows(n)
        BY <2>2, <3>1, <3>2 DEF HolderInv, Checks
      <3>4. QED
        BY <3>1, <3>3 DEF Knows
    <2>3. QED
      BY <2>1, <2>2 DEF HolderStep, HolderInv
  <1>4. QED
    BY <1>1, <1>2, <1>3 DEF ElectionNext

LEMMA HolderInvInit == Init => HolderInv
  BY DEF Init, ElectionInit, HolderInv, Checks

\* A main the key names, and that awaits no answer, leads (checkLeader extends the key
\* whoever asks), for any number of mains, of checks that overlap, of crashes, restarts
\* and lapses, and whatever names survive a restart, unless its own name has refused it
\* (tryBecomeLeader).
THEOREM KeyHoldersLead == Spec => []HolderLeads
  <1>1. KeyInv /\ HolderInv /\ [Next]_vars => HolderInv'
    BY NextElects, HolderInvStep
  <1>2. HolderInv => HolderLeads
    <2>1. SUFFICES ASSUME HolderInv, NEW m \in Running, key = m, Quiet(m), m \notin refused
                   PROVE  instanceRole[m] = "leader"
      BY DEF HolderLeads, HoldsAsFollower
    <2>2. Knows(m) /\ ~In("set", sent[m]) /\ ~In(Reply("get", NoOne), replies[m])
      BY <2>1, EmptyFacts DEF HolderInv, Running, Quiet
    <2>3. ~Wins(m, replies[m])
      BY <2>1 DEF Wins, Quiet
    <2>4. QED
      BY <2>2, <2>3 DEF Knows
  <1>3. QED
    BY KeyInvAlways, HolderInvInit, <1>1, <1>2, PTL DEF Spec

-----------------------------------------------------------------------------
(* The services *)

LEMMA TimerFacts ==
    ASSUME NEW t \in Timer
    PROVE  /\ t.set \in BOOLEAN /\ t.stray \in Nat
           /\ Arm(t) \in Timer /\ Arm(t).set /\ (~t.set => Arm(t).stray = t.stray)
           /\ Clear(t) \in Timer /\ ~Clear(t).set /\ Clear(t).stray = t.stray
           /\ Runs(t) <=> t.set \/ t.stray # 0
  <1>1. t.set \in BOOLEAN /\ t.stray \in Nat /\ t = [set |-> t.set, stray |-> t.stray]
    BY DEF Timer
  <1>2. /\ \A n \in Nat : [set |-> TRUE, stray |-> n] \in Timer
        /\ \A n \in Nat : [set |-> FALSE, stray |-> n] \in Timer
    BY DEF Timer
  <1>3. t.stray + 1 \in Nat /\ (t.stray > 0 <=> t.stray # 0)
    BY <1>1
  <1>4. Arm(t) \in Timer /\ Arm(t).set /\ (~t.set => Arm(t).stray = t.stray)
    BY <1>1, <1>2, <1>3 DEF Arm
  <1>5. Clear(t) \in Timer /\ Clear(t).set = FALSE /\ Clear(t).stray = t.stray
    BY DEF Timer, Clear
  <1>6. Runs(t) <=> t.set \/ t.stray # 0
    BY <1>3 DEF Runs
  <1>7. QED
    BY <1>1, <1>2, <1>4, <1>5, <1>6

LEMMA OffFacts == Off \in Timer /\ ~Off.set /\ Off.stray = 0
  BY DEF Off, Timer

\* The entries and rows of the wait tracker keep their types.
TrackerTypeOK ==
    /\ waitingExecutions \in [Mains -> [Rows -> {"none", "timed", "kept"}]]
    /\ found \in [Mains -> SUBSET Rows] /\ resumed \subseteq Rows

LEMMA TrackerTypeStep ==
    ASSUME TrackerTypeOK, [Next]_vars
    PROVE  TrackerTypeOK'
  <1> USE DEF TrackerTypeOK
  <1>1. ASSUME UNCHANGED vars PROVE TrackerTypeOK'
    BY <1>1 DEF vars
  <1>2. ASSUME UNCHANGED services PROVE TrackerTypeOK'
    BY <1>2 DEF services
  <1>3. ASSUME NEW m \in Mains, StartTracking(m), resumed' = resumed PROVE TrackerTypeOK'
    BY <1>3 DEF StartTracking
  <1>4. ASSUME NEW m \in Mains, StopTracking(m), resumed' = resumed PROVE TrackerTypeOK'
    BY <1>4 DEF StopTracking
  <1>5. ASSUME NEW m \in Mains, Elect(m) PROVE TrackerTypeOK'
    <2> DEFINE event == IF Listens(m) THEN Emitted(m) ELSE "none"
    <2>1. event \in {"leader-takeover", "leader-stepdown", "none"}
      BY DEF Emitted
    <2>2. CASE event = "leader-takeover"
      <3>1. StartTracking(m) /\ resumed' = resumed
        BY <1>5, <2>2 DEF Elect
      <3>2. QED
        BY <1>3, <3>1
    <2>3. CASE event = "leader-stepdown"
      <3>1. StopTracking(m) /\ resumed' = resumed
        BY <1>5, <2>3 DEF Elect
      <3>2. QED
        BY <1>4, <3>1
    <2>4. CASE event = "none"
      BY <1>5, <2>4 DEF Elect
    <2>5. QED
      BY <2>1, <2>2, <2>3, <2>4
  <1>6. ASSUME NEW m \in Mains, InitTracking(m) PROVE TrackerTypeOK'
    BY <1>3, <1>6 DEF InitTracking
  <1>7. ASSUME NEW m \in Mains, InitPruning(m) \/ StopServices(m) PROVE TrackerTypeOK'
    BY <1>7 DEF InitPruning, StopServices
  <1>8. ASSUME NEW m \in Mains, StopTrackingFirst(m) PROVE TrackerTypeOK'
    BY <1>4, <1>8 DEF StopTrackingFirst
  <1>9. ASSUME NEW m \in Mains, Ends(m) PROVE TrackerTypeOK'
    BY <1>9 DEF Ends, NoEntries
  <1>10. ASSUME NEW m \in Mains, Work(m) PROVE TrackerTypeOK'
    <2>1. CASE PollWaiting(m)
      BY <2>1 DEF PollWaiting
    <2>2. CASE GetWaitingExecutions(m)
      BY <2>2 DEF GetWaitingExecutions
    <2>3. ASSUME NEW r \in Rows, StartExecution(m, r) PROVE TrackerTypeOK'
      BY <2>3 DEF StartExecution
    <2>4. QED
      BY <1>10, <2>1, <2>2, <2>3 DEF Work
  <1>11. QED
    BY <1>1, <1>2, <1>5, <1>6, <1>7, <1>8, <1>9, <1>10 DEF Next, Election, RegisterEventHandlers

TimersTypeOK ==
    /\ mainTimer \in [Mains -> Timer] /\ softDeletion \in [Mains -> Timer]
    /\ untimely \subseteq Mains

\* What becomes of the timers and the role of a main that handles a reply.
LEMMA ElectFacts ==
    ASSUME ElectionTypeOK, TimersTypeOK, NEW m \in Mains, Elect(m)
    PROVE  LET event == IF Listens(m) THEN Emitted(m) ELSE "none"
           IN  /\ phase[m] # "joining" => phase'[m] = phase[m]
               /\ phase[m] = "joining" => phase'[m] \in {"joining", "starting"}
               /\ replies[m] # << >>
               /\ Emitted(m) = "leader-takeover" =>
                     instanceRole'[m] = "leader" /\ Head(replies[m]) = Reply("set", m)
               /\ Emitted(m) = "leader-stepdown" => instanceRole'[m] = "follower"
               /\ Emitted(m) = "none" =>
                     \/ instanceRole'[m] = instanceRole[m]
                     \/ instanceRole'[m] = "follower" /\ Head(replies[m]).command = "set"
               /\ \/ event = "leader-takeover" /\ instanceRole'[m] = "leader"
                     /\ mainTimer' = [mainTimer EXCEPT ![m] = Arm(mainTimer[m])]
                     /\ \/ phase[m] \in {"stopping", "leaving", "clearing"}
                           /\ softDeletion' = softDeletion
                        \/ softDeletion' = [softDeletion EXCEPT ![m] = Arm(softDeletion[m])]
                  \/ event = "leader-stepdown" /\ softDeletion' = softDeletion
                     /\ mainTimer' = [mainTimer EXCEPT ![m] = Clear(mainTimer[m])]
                  \/ event = "none" /\ mainTimer' = mainTimer /\ softDeletion' = softDeletion
               /\ untimely' = IF Emitted(m) # "none" /\ phase[m] \in {"loading", "leaving", "clearing"}
                              THEN untimely \cup {m} ELSE untimely
  <1> DEFINE event == IF Listens(m) THEN Emitted(m) ELSE "none"
  <1>1. HandleReply(m) /\ replies[m] # << >>
    BY DEF Elect, HandleReply, LeaderIsThisInstance, LeaderIsOther, LeadershipVacant,
           TriedToBecomeLeader, TriedToBecomeLeaderIs, Answer
  <1>2. /\ phase[m] # "joining" => phase'[m] = phase[m]
        /\ phase[m] = "joining" => phase'[m] \in {"joining", "starting"}
    BY <1>1 DEF HandleReply, LeaderIsThisInstance, LeaderIsOther, LeadershipVacant,
                TriedToBecomeLeader, TriedToBecomeLeaderIs, ElectionTypeOK
  <1>3. /\ Emitted(m) = "leader-takeover" =>
              instanceRole'[m] = "leader" /\ Head(replies[m]) = Reply("set", m)
        /\ Emitted(m) = "leader-stepdown" => instanceRole'[m] = "follower"
        /\ Emitted(m) = "none" =>
              \/ instanceRole'[m] = instanceRole[m]
              \/ instanceRole'[m] = "follower" /\ Head(replies[m]).command = "set"
        /\ Emitted(m) \in {"leader-takeover", "leader-stepdown", "none"}
    <2>1. CASE LeaderIsThisInstance(m)
      <3>1. Emitted(m) = "none"
        BY <2>1, MainsAssumption DEF LeaderIsThisInstance, Answer, Emitted
      <3>2. QED
        BY <2>1, <3>1 DEF LeaderIsThisInstance
    <2>2. CASE LeaderIsOther(m)
      <3>1. Emitted(m) = IF instanceRole[m] = "leader" THEN "leader-stepdown" ELSE "none"
        BY <2>2 DEF LeaderIsOther, Answer, Emitted
      <3>2. QED
        BY <2>2, <3>1 DEF LeaderIsOther, ElectionTypeOK
    <2>3. CASE LeadershipVacant(m)
      <3>1. Emitted(m) = "leader-stepdown"
        BY <2>3 DEF LeadershipVacant, Answer, Emitted
      <3>2. QED
        BY <2>3, <3>1 DEF LeadershipVacant, ElectionTypeOK
    <2>4. CASE TriedToBecomeLeader(m)
      <3>1. Head(replies[m]).command = "set"
        BY <2>4 DEF TriedToBecomeLeader, TriedToBecomeLeaderIs, Answer
      <3>2. Emitted(m) = IF Found(m) = m THEN "leader-takeover" ELSE "none"
        BY <1>1, <3>1 DEF Answer, Emitted
      <3>3. QED
        BY <1>1, <2>4, <3>1, <3>2, HeadsAreTyped
           DEF TriedToBecomeLeader, TriedToBecomeLeaderIs, ElectionTypeOK
    <2>5. QED
      BY <1>1, <2>1, <2>2, <2>3, <2>4 DEF HandleReply
  <1>4. \/ event = "leader-takeover" /\ instanceRole'[m] = "leader"
           /\ mainTimer' = [mainTimer EXCEPT ![m] = Arm(mainTimer[m])]
           /\ \/ phase[m] \in {"stopping", "leaving", "clearing"} /\ softDeletion' = softDeletion
              \/ softDeletion' = [softDeletion EXCEPT ![m] = Arm(softDeletion[m])]
        \/ event = "leader-stepdown" /\ softDeletion' = softDeletion
           /\ mainTimer' = [mainTimer EXCEPT ![m] = Clear(mainTimer[m])]
        \/ event = "none" /\ mainTimer' = mainTimer /\ softDeletion' = softDeletion
    <2>1. CASE event = "leader-takeover"
      <3>1. StartTracking(m) /\ StartPruning(m) /\ instanceRole'[m] = "leader"
        BY <1>3, <2>1 DEF Elect
      <3>2. QED
        BY <2>1, <3>1 DEF StartTracking, StartPruning, isLeader
    <2>2. CASE event = "leader-stepdown"
      <3>1. StopTracking(m) /\ StopPruning(m) /\ instanceRole'[m] = "follower"
        BY <1>3, <2>2 DEF Elect
      <3>2. QED
        BY <2>2, <3>1 DEF StopTracking, StopPruning, isLeader
    <2>3. CASE event = "none"
      BY <2>3 DEF Elect
    <2>4. QED
      BY <1>3, <2>1, <2>2, <2>3
  <1>5. QED
    BY <1>1, <1>2, <1>3, <1>4 DEF Elect

LEMMA TimersTypeStep ==
    ASSUME ElectionTypeOK, TimersTypeOK, [Next]_vars
    PROVE  TimersTypeOK'
  <1>0. ASSUME NEW f \in [Mains -> Timer], NEW m \in Mains
        PROVE  /\ [f EXCEPT ![m] = Arm(f[m])] \in [Mains -> Timer]
               /\ [f EXCEPT ![m] = Clear(f[m])] \in [Mains -> Timer]
               /\ [f EXCEPT ![m] = Off] \in [Mains -> Timer]
    BY TimerFacts, OffFacts
  <1>1. ASSUME UNCHANGED vars \/ UNCHANGED services PROVE TimersTypeOK'
    BY <1>1 DEF vars, services, TimersTypeOK
  <1>2. ASSUME NEW m \in Mains, Elect(m) PROVE TimersTypeOK'
    <2>1. /\ mainTimer' \in {mainTimer, [mainTimer EXCEPT ![m] = Arm(mainTimer[m])],
                             [mainTimer EXCEPT ![m] = Clear(mainTimer[m])]}
          /\ softDeletion' \in {softDeletion, [softDeletion EXCEPT ![m] = Arm(softDeletion[m])]}
          /\ untimely' \in {untimely, untimely \cup {m}}
      BY <1>2, ElectFacts
    <2>2. QED
      BY <1>0, <2>1 DEF TimersTypeOK
  <1>3. ASSUME NEW m \in Mains, \/ InitTracking(m) \/ InitPruning(m) \/ StopServices(m)
                               \/ StopTrackingFirst(m) \/ Ends(m)
        PROVE  TimersTypeOK'
    <2>1. /\ mainTimer' \in {mainTimer, [mainTimer EXCEPT ![m] = Arm(mainTimer[m])],
                             [mainTimer EXCEPT ![m] = Clear(mainTimer[m])],
                             [mainTimer EXCEPT ![m] = Off]}
          /\ softDeletion' \in {softDeletion, [softDeletion EXCEPT ![m] = Arm(softDeletion[m])],
                                [softDeletion EXCEPT ![m] = Clear(softDeletion[m])],
                                [softDeletion EXCEPT ![m] = Off]}
          /\ untimely' \in {untimely, untimely \ {m}}
      BY <1>3 DEF InitTracking, InitPruning, StopServices, StopTrackingFirst, Ends,
                  StartTracking, StopTracking, StartPruning, StopPruning
    <2>2. QED
      BY <1>0, <2>1 DEF TimersTypeOK
  <1>4. ASSUME NEW m \in Mains, Work(m) PROVE TimersTypeOK'
    BY <1>4 DEF Work, PollWaiting, GetWaitingExecutions, StartExecution, TimersTypeOK
  <1>5. QED
    BY <1>1, <1>2, <1>3, <1>4 DEF Next, Election, RegisterEventHandlers

LEMMA ServicesTypeAlways == Spec => [](ElectionTypeOK /\ TimersTypeOK /\ TrackerTypeOK)
  <1>1. Init => ElectionTypeOK /\ TimersTypeOK /\ TrackerTypeOK
    BY KeyInvInit, OffFacts DEF KeyInv, Init, NoEntries, TimersTypeOK, TrackerTypeOK
  <1>2. ElectionTypeOK /\ TimersTypeOK /\ TrackerTypeOK /\ [Next]_vars
           => (ElectionTypeOK /\ TimersTypeOK /\ TrackerTypeOK)'
    BY NextElects, ElectionTypeStep, TimersTypeStep, TrackerTypeStep
  <1>3. QED
    BY <1>1, <1>2, PTL DEF Spec

\* The election, the timers and the entries keep their types.
THEOREM ServicesAreTyped == Spec => []ServicesTypeOK
  <1>1. ElectionTypeOK /\ TimersTypeOK /\ TrackerTypeOK => ServicesTypeOK
    BY DEF TimersTypeOK, TrackerTypeOK, ServicesTypeOK
  <1>2. QED
    BY <1>1, ServicesTypeAlways, PTL

-----------------------------------------------------------------------------
(* The leader works *)

\* The wait tracker has looked at the role, and has not been stopped.
Tracked == {"loading", "serving", "up", "stopping"}

\* Whatever has made a main lead has armed its timers too.
AtWork(m) ==
    m \notin untimely /\ instanceRole[m] = "leader" =>
        /\ phase[m] \in Tracked => mainTimer[m].set
        /\ phase[m] = "up" => softDeletion[m].set

WorkInv == ElectionTypeOK /\ TimersTypeOK /\ \A m \in Mains : AtWork(m)

\* A step leaves the role, the phase and the timers of the other mains alone.
LEMMA OthersServe ==
    ASSUME ElectionTypeOK, TimersTypeOK, NEW m \in Mains, Election(m) \/ Work(m),
           NEW n \in Mains \ {m}
    PROVE  /\ phase'[n] = phase[n] /\ instanceRole'[n] = instanceRole[n]
           /\ sent'[n] = sent[n] /\ replies'[n] = replies[n]
           /\ mainTimer'[n] = mainTimer[n] /\ softDeletion'[n] = softDeletion[n]
           /\ n \in untimely' <=> n \in untimely
  <1>1. CASE Election(m)
    <2>1. MainNext(m)
      BY <1>1 DEF Election, Elect, InitTracking, RegisterEventHandlers, InitPruning,
                  StopServices, StopTrackingFirst, Ends, MainNext
    <2>2. CASE Elect(m)
      BY <2>1, <2>2, ElectFacts, OthersKeep DEF TimersTypeOK
    <2>3. CASE UNCHANGED services
      BY <2>1, <2>3, OthersKeep DEF services
    <2>4. CASE \/ InitTracking(m) \/ InitPruning(m) \/ StopServices(m)
               \/ StopTrackingFirst(m) \/ Ends(m)
      BY <2>1, <2>4, OthersKeep
         DEF InitTracking, InitPruning, StopServices, StopTrackingFirst, Ends, TimersTypeOK,
             StartTracking, StopTracking, StartPruning, StopPruning
    <2>5. QED
      BY <1>1, <2>2, <2>3, <2>4 DEF Election, RegisterEventHandlers
  <1>2. CASE Work(m)
    BY <1>2 DEF Work, PollWaiting, GetWaitingExecutions, StartExecution, election, redis
  <1>3. QED
    BY <1>1, <1>2

LEMMA WorkOfMain ==
    ASSUME WorkInv, NEW m \in Mains, Election(m) \/ Work(m)
    PROVE  AtWork(m)'
  <1>0. /\ ElectionTypeOK /\ TimersTypeOK /\ AtWork(m)
        /\ mainTimer[m] \in Timer /\ softDeletion[m] \in Timer
    BY DEF WorkInv, TimersTypeOK
  <1>1. /\ \A f \in [Mains -> Timer] : \A t : [f EXCEPT ![m] = t][m] = t
        /\ Arm(mainTimer[m]).set /\ Arm(softDeletion[m]).set
    BY <1>0, TimerFacts
  <1>2. CASE Work(m)
    BY <1>0, <1>2 DEF Work, PollWaiting, GetWaitingExecutions, StartExecution, election, redis, AtWork
  <1>3. CASE \/ (Serve(m) \/ Join(m) \/ CheckLeader(m) \/ Shutdown(m) \/ Cleared(m))
                  /\ UNCHANGED services
             \/ RegisterEventHandlers(m)
    <2>1. /\ instanceRole'[m] = instanceRole[m] /\ UNCHANGED services
          /\ phase'[m] \in Tracked => phase[m] \in Tracked
          /\ phase'[m] = "up" => phase[m] = "up"
      BY <1>0, <1>3 DEF RegisterEventHandlers, Serve, Join, CheckLeader, Shutdown, Cleared, StartUp,
                        Enter, Tracked, ElectionTypeOK
    <2>2. QED
      BY <1>0, <2>1 DEF AtWork, services
  <1>4. CASE Elect(m)
    <2> DEFINE event == IF Listens(m) THEN Emitted(m) ELSE "none"
    <2>1. SUFFICES ASSUME m \notin untimely', instanceRole'[m] = "leader", phase'[m] \in Tracked
                   PROVE  mainTimer'[m].set /\ (phase'[m] = "up" => softDeletion'[m].set)
      BY DEF AtWork, Tracked
    <2>2. phase'[m] = phase[m] /\ m \notin untimely /\ phase[m] \in Tracked
      BY <1>0, <1>4, <2>1, ElectFacts DEF Tracked
    <2>3. event = Emitted(m)
      BY <1>0, <1>4, <2>1, <2>2, ElectFacts DEF Listens, Tracked
    <2>4. CASE Emitted(m) = "leader-takeover"
      <3>1. /\ mainTimer' = [mainTimer EXCEPT ![m] = Arm(mainTimer[m])]
            /\ \/ phase[m] \in {"stopping", "leaving", "clearing"}
               \/ softDeletion' = [softDeletion EXCEPT ![m] = Arm(softDeletion[m])]
        BY <1>0, <1>4, <2>3, <2>4, ElectFacts
      <3>2. QED
        BY <1>0, <1>1, <2>2, <3>1 DEF TimersTypeOK
    <2>5. CASE Emitted(m) = "leader-stepdown"
      BY <1>0, <1>4, <2>1, <2>5, ElectFacts
    <2>6. CASE Emitted(m) = "none"
      <3>1. mainTimer' = mainTimer /\ softDeletion' = softDeletion /\ instanceRole[m] = "leader"
        BY <1>0, <1>4, <2>1, <2>3, <2>6, ElectFacts
      <3>2. QED
        BY <1>0, <2>2, <3>1 DEF AtWork
    <2>7. QED
      BY <2>4, <2>5, <2>6 DEF Emitted
  <1>5. CASE InitTracking(m)
    <2>1. /\ phase'[m] = "loading" /\ instanceRole'[m] = instanceRole[m]
          /\ instanceRole[m] = "leader" =>
                mainTimer' = [mainTimer EXCEPT ![m] = Arm(mainTimer[m])]
      BY <1>0, <1>5 DEF InitTracking, StartUp, Enter, isLeader, StartTracking, ElectionTypeOK
    <2>2. QED
      BY <1>0, <1>1, <2>1 DEF AtWork, TimersTypeOK
  <1>6. CASE InitPruning(m)
    <2>1. /\ phase[m] = "serving" /\ instanceRole'[m] = instanceRole[m] /\ untimely' = untimely
          /\ mainTimer' = mainTimer
          /\ instanceRole[m] = "leader" =>
                softDeletion' = [softDeletion EXCEPT ![m] = Arm(softDeletion[m])]
      BY <1>0, <1>6 DEF InitPruning, StartUp, Enter, isLeader, StartPruning, ElectionTypeOK
    <2>2. QED
      BY <1>0, <1>1, <2>1 DEF AtWork, Tracked, TimersTypeOK
  <1>7. CASE StopServices(m)
    <2>1. /\ phase[m] = "up" /\ phase'[m] = "stopping" /\ instanceRole'[m] = instanceRole[m]
          /\ untimely' = untimely /\ mainTimer' = mainTimer
      BY <1>0, <1>7 DEF StopServices, BeginStop, Enter, ElectionTypeOK
    <2>2. QED
      BY <1>0, <2>1 DEF AtWork, Tracked
  <1>8. CASE StopTrackingFirst(m)
    BY <1>0, <1>8 DEF StopTrackingFirst, LeaveTracking, Enter, AtWork, Tracked, ElectionTypeOK
  <1>9. CASE Ends(m)
    <2>1. phase'[m] = "down"
      BY <1>0, <1>9 DEF Ends, Exit, Crash, End, Enter, ElectionTypeOK
    <2>2. QED
      BY <2>1 DEF AtWork, Tracked
  <1>10. QED
    BY <1>2, <1>3, <1>4, <1>5, <1>6, <1>7, <1>8, <1>9 DEF Election

\* A leader does the leader's work, however it came to lead (WaitTracker.init, the event
\* handlers, ExecutionsPruningService.init), for any number of mains and of checks that
\* overtake each other, and whatever becomes of the key.
THEOREM LeadersWork == Spec => []LeaderAtWork
  <1>1. Init => WorkInv
    BY KeyInvInit, OffFacts DEF KeyInv, Init, ElectionInit, WorkInv, TimersTypeOK, AtWork, Tracked
  <1>2. WorkInv /\ [Next]_vars => WorkInv'
    <2>1. SUFFICES ASSUME WorkInv, [Next]_vars PROVE WorkInv'
      OBVIOUS
    <2>2. ElectionTypeOK' /\ TimersTypeOK'
      BY <2>1, NextElects, ElectionTypeStep, TimersTypeStep DEF WorkInv
    <2>3. ASSUME NEW m \in Mains, Election(m) \/ Work(m), NEW n \in Mains PROVE AtWork(n)'
      BY <2>1, <2>3, WorkOfMain, OthersServe DEF WorkInv, AtWork
    <2>4. ASSUME UNCHANGED <<phase, instanceRole, services>>, NEW n \in Mains PROVE AtWork(n)'
      BY <2>1, <2>4 DEF WorkInv, AtWork, services
    <2>5. QED
      BY <2>1, <2>2, <2>3, <2>4 DEF Next, vars, services, Expire, Lapse, WorkInv
  <1>3. WorkInv => LeaderAtWork
    BY DEF WorkInv, AtWork, Tracked, LeaderAtWork, Runs
  <1>4. QED
    BY <1>1, <1>2, <1>3, PTL DEF Spec

-----------------------------------------------------------------------------
(* One main at a time works *)

\* As long as no key is lost, a main hears of its success once, and not any more when it
\* leads or has its timer.
Settled(m) ==
    lapses = 0 /\ (Checks(m) \/ phase[m] = "joining") =>
        /\ AtMostOnce(Reply("set", m), replies[m])
        /\ Checks(m) /\ instanceRole[m] = "leader" => ~In(Reply("set", m), replies[m])
        /\ m \notin untimely /\ mainTimer[m].set => ~In(Reply("set", m), replies[m])

\* The interval of the wait tracker has one timer at most, and only the holder of the
\* key has it, if not always as the leader.
Tracking(m) ==
    lapses = 0 /\ m \notin untimely =>
        /\ mainTimer[m].stray = 0
        /\ mainTimer[m].set => key = m /\ m \in renewing /\ phase[m] \in Tracked

AloneInv == \A m \in Mains : Settled(m) /\ Tracking(m)

LEMMA AloneOfServe ==
    ASSUME KeyInv, TimersTypeOK, NEW m \in Mains, Settled(m), Tracking(m),
           Serve(m), UNCHANGED services
    PROVE  Settled(m)' /\ Tracking(m)'
  <1> DEFINE c == Head(sent[m])
             f == IF c = "set" /\ key # NoOne THEN NoOne ELSE key'
             w == Reply("set", m)
  <1>1. /\ ElectionTypeOK /\ sent[m] # << >> /\ c \in Commands
        /\ key' = IF c = "set" /\ key = NoOne THEN m ELSE IF c = "del" THEN NoOne ELSE key
        /\ replies' = [replies EXCEPT ![m] = Append(replies[m], Reply(c, f))]
        /\ Reply(c, f) \in Answers /\ renewing \subseteq renewing'
        /\ UNCHANGED <<phase, instanceRole, stops, lapses>>
    BY ServeFacts DEF KeyInv
  <1>2. /\ replies'[m] = Append(replies[m], Reply(c, f)) /\ replies[m] \in Seq(Answers)
        /\ sent[m] \in Seq(Commands) /\ phase'[m] = phase[m]
        /\ instanceRole'[m] = instanceRole[m] /\ lapses' = lapses
        /\ mainTimer'[m] = mainTimer[m] /\ untimely' = untimely
    BY <1>1 DEF ElectionTypeOK, services
  <1>3. c = "del" => phase[m] = "clearing"
    BY <1>1, <1>2, TailFacts DEF KeyInv, Tidy
  <1>4. /\ \A v : In(v, replies'[m]) => In(v, replies[m]) \/ v = Reply(c, f)
        /\ \A v : AtMostOnce(v, replies[m]) /\ v # Reply(c, f) => AtMostOnce(v, replies'[m])
        /\ ~In(Reply(c, f), replies[m]) => AtMostOnce(Reply(c, f), replies'[m])
    BY <1>1, <1>2, AppendFacts
  <1>5. CASE c = "set" /\ key = NoOne
    <2>1. SUFFICES ASSUME lapses = 0 PROVE Settled(m)' /\ Tracking(m)'
      BY <1>2 DEF Settled, Tracking
    <2>2. key # m /\ ~Claims(m)
      BY <1>5, <2>1, MainsAssumption DEF KeyInv
    <2>3. m \notin untimely => ~mainTimer[m].set
      BY <2>1, <2>2 DEF Tracking
    <2>4. Reply(c, f) = w
      BY <1>1, <1>5
    <2>5. Tracking(m)'
      BY <1>2, <2>1, <2>3 DEF Tracking
    <2>6. Settled(m)'
      <3>1. SUFFICES ASSUME Checks(m)' \/ phase'[m] = "joining"
                     PROVE  /\ AtMostOnce(w, replies'[m])
                            /\ ~(Checks(m)' /\ instanceRole'[m] = "leader")
                            /\ ~(m \notin untimely' /\ mainTimer'[m].set)
        BY DEF Settled
      <3>2. (Checks(m) \/ phase[m] = "joining") /\ (Checks(m)' => Checks(m))
        BY <1>2, <3>1 DEF Checks
      <3>3. ~In(w, replies[m]) /\ ~(Checks(m) /\ instanceRole[m] = "leader")
        BY <2>2, <3>2 DEF Claims
      <3>4. QED
        BY <1>2, <1>4, <2>3, <2>4, <3>2, <3>3
    <2>7. QED
      BY <2>5, <2>6
  <1>6. CASE ~(c = "set" /\ key = NoOne)
    <2>1. Reply(c, f) # w
      <3>1. c = "set" => f = NoOne
        BY <1>6
      <3>2. Reply(c, f).command = c /\ Reply(c, f).found = f /\ w.command = "set" /\ w.found = m
        BY DEF Reply
      <3>3. QED
        BY <3>1, <3>2, MainsAssumption
    <2>2. (In(w, replies'[m]) => In(w, replies[m]))
          /\ (AtMostOnce(w, replies[m]) => AtMostOnce(w, replies'[m]))
      BY <1>4, <2>1
    <2>3. Settled(m)'
      BY <1>2, <2>2 DEF Settled, Checks
    <2>4. phase[m] \in Tracked => key' = key
      BY <1>1, <1>3, <1>6 DEF Tracked
    <2>5. Tracking(m)'
      BY <1>1, <1>2, <2>4 DEF Tracking
    <2>6. QED
      BY <2>3, <2>5
  <1>7. QED
    BY <1>5, <1>6

LEMMA AloneOfElect ==
    ASSUME KeyInv, TimersTypeOK, NEW m \in Mains, Settled(m), Tracking(m), Elect(m)
    PROVE  Settled(m)' /\ Tracking(m)'
  <1> DEFINE event == IF Listens(m) THEN Emitted(m) ELSE "none"
             w == Reply("set", m)
  <1>0. /\ ElectionTypeOK /\ mainTimer[m] \in Timer /\ replies[m] \in Seq(Answers)
        /\ replies[m] # << >>
    BY HeadsAreTyped, ElectFacts DEF KeyInv, TimersTypeOK
  <1>1. /\ HandleReply(m) /\ replies'[m] = Tail(replies[m]) /\ key' = key /\ lapses' = lapses
        /\ renewing \subseteq renewing'
        /\ phase'[m] = (IF phase[m] = "joining" /\ phase' # phase THEN "starting" ELSE phase[m])
    BY <1>0 DEF Elect, HandleReply, LeaderIsThisInstance, LeaderIsOther, LeadershipVacant,
           TriedToBecomeLeader, TriedToBecomeLeaderIs, Answer, Consume, ElectionTypeOK
  <1>2. SUFFICES ASSUME lapses = 0 PROVE Settled(m)' /\ Tracking(m)'
    BY <1>1 DEF Settled, Tracking
  <1>3. /\ \A v : In(v, replies'[m]) => In(v, replies[m])
        /\ \A v : AtMostOnce(v, replies[m]) => AtMostOnce(v, replies'[m])
        /\ In(Head(replies[m]), replies[m])
        /\ AtMostOnce(Head(replies[m]), replies[m]) => ~In(Head(replies[m]), replies'[m])
    BY <1>0, <1>1, TailFacts
  <1>4. (Checks(m)' \/ phase'[m] = "joining") => (Checks(m) \/ phase[m] = "joining")
    BY <1>1 DEF Checks
  <1>5. Emitted(m) = "leader-takeover" => Head(replies[m]) = w /\ instanceRole'[m] = "leader"
    BY <1>0, ElectFacts DEF Tidy
  <1>6. instanceRole'[m] = "leader" =>
           Head(replies[m]) = w \/ (instanceRole[m] = "leader" /\ (Checks(m)' => Checks(m)))
    BY <1>0, ElectFacts, HeadsAreTyped, <1>1, <1>5
       DEF HandleReply, LeaderIsThisInstance, LeaderIsOther, LeadershipVacant, TriedToBecomeLeader,
           TriedToBecomeLeaderIs, Answer, Checks, ElectionTypeOK
  <1>7. \/ event = "leader-takeover" /\ mainTimer'[m] = Arm(mainTimer[m])
        \/ event = "leader-stepdown" /\ mainTimer'[m] = Clear(mainTimer[m])
        \/ event = "none" /\ mainTimer'[m] = mainTimer[m]
    BY <1>0, ElectFacts DEF TimersTypeOK
  <1>8. /\ Arm(mainTimer[m]).set /\ (~mainTimer[m].set => Arm(mainTimer[m]).stray = mainTimer[m].stray)
        /\ ~Clear(mainTimer[m]).set /\ Clear(mainTimer[m]).stray = mainTimer[m].stray
    BY <1>0, TimerFacts
  <1>9. m \notin untimely' =>
           m \notin untimely /\ (Emitted(m) # "none" => phase[m] \notin {"loading", "leaving", "clearing"})
    BY <1>0, ElectFacts
  <1>10. mainTimer'[m].set => event = "leader-takeover" \/ mainTimer[m].set
    BY <1>7, <1>8
  <1>11. Settled(m)'
    <2>1. SUFFICES ASSUME Checks(m)' \/ phase'[m] = "joining"
                   PROVE  /\ AtMostOnce(w, replies'[m])
                          /\ Checks(m)' /\ instanceRole'[m] = "leader" => ~In(w, replies'[m])
                          /\ m \notin untimely' /\ mainTimer'[m].set => ~In(w, replies'[m])
      BY DEF Settled
    <2>2. AtMostOnce(w, replies[m])
      BY <1>2, <1>4, <2>1 DEF Settled
    <2>3. CASE Head(replies[m]) = w
      BY <1>3, <2>2, <2>3
    <2>4. CASE Head(replies[m]) # w
      <3>1. event # "leader-takeover"
        BY <1>5, <2>4
      <3>2. ASSUME \/ Checks(m)' /\ instanceRole'[m] = "leader"
                   \/ m \notin untimely' /\ mainTimer'[m].set
            PROVE  ~In(w, replies[m])
        BY <1>2, <1>4, <1>6, <1>9, <1>10, <2>1, <2>4, <3>1, <3>2 DEF Settled
      <3>3. QED
        BY <1>3, <2>2, <3>2
    <2>5. QED
      BY <2>3, <2>4
  <1>12. Tracking(m)'
    <2>1. SUFFICES ASSUME m \notin untimely'
                   PROVE  /\ mainTimer'[m].stray = 0
                          /\ mainTimer'[m].set => key' = m /\ m \in renewing' /\ phase'[m] \in Tracked
      BY DEF Tracking
    <2>2. /\ mainTimer[m].stray = 0
          /\ mainTimer[m].set => key = m /\ m \in renewing /\ phase[m] \in Tracked
      BY <1>2, <1>9, <2>1 DEF Tracking
    <2>3. phase[m] \in Tracked => phase'[m] = phase[m]
      BY <1>1 DEF Tracked
    <2>4. CASE event = "leader-takeover"
      <3>1. Head(replies[m]) = w /\ phase[m] \in Tracked
        BY <1>5, <1>9, <2>1, <2>4 DEF Listens, Tracked
      <3>2. In(w, replies[m]) /\ Checks(m)
        BY <1>3, <3>1 DEF Tracked, Checks
      <3>3. key = m /\ m \in renewing
        BY <1>2, <3>2 DEF KeyInv, Claims
      <3>4. ~mainTimer[m].set
        BY <1>2, <1>9, <2>1, <3>2 DEF Settled
      <3>5. mainTimer'[m] = Arm(mainTimer[m])
        BY <1>7, <2>4
      <3>6. QED
        BY <1>1, <1>8, <2>2, <2>3, <3>1, <3>3, <3>4, <3>5
    <2>5. CASE event # "leader-takeover"
      BY <1>1, <1>7, <1>8, <2>2, <2>3, <2>5
    <2>6. QED
      BY <2>4, <2>5
  <1>13. QED
    BY <1>11, <1>12

LEMMA AloneOfMain ==
    ASSUME KeyInv, TimersTypeOK, NEW m \in Mains, Settled(m), Tracking(m), Election(m) \/ Work(m)
    PROVE  Settled(m)' /\ Tracking(m)'
  <1>0. /\ ElectionTypeOK /\ mainTimer[m] \in Timer /\ replies[m] \in Seq(Answers)
    BY HeadsAreTyped DEF KeyInv, TimersTypeOK
  <1>1. \A t : [mainTimer EXCEPT ![m] = t][m] = t
    BY DEF TimersTypeOK
  <1>2. /\ Arm(mainTimer[m]).set /\ (~mainTimer[m].set => Arm(mainTimer[m]).stray = mainTimer[m].stray)
        /\ ~Clear(mainTimer[m]).set /\ Clear(mainTimer[m]).stray = mainTimer[m].stray
        /\ ~Off.set /\ Off.stray = 0
    BY <1>0, TimerFacts, OffFacts
  <1>3. CASE Work(m)
    <2>1. UNCHANGED <<election, mainTimer, untimely>>
      BY <1>3 DEF Work, PollWaiting, GetWaitingExecutions, StartExecution
    <2>2. QED
      BY <2>1 DEF election, redis, Settled, Tracking, Checks
  <1>4. CASE Serve(m) /\ UNCHANGED services
    BY <1>4, AloneOfServe
  <1>5. CASE Elect(m)
    BY <1>5, AloneOfElect
  <1>6. CASE (Join(m) \/ CheckLeader(m)) /\ UNCHANGED services
    <2>1. /\ replies' = replies /\ instanceRole' = instanceRole /\ key' = key /\ lapses' = lapses
          /\ renewing' = renewing /\ UNCHANGED services
      BY <1>6 DEF Join, CheckLeader
    <2>2. /\ phase' = phase \/ (phase[m] = "down" /\ phase'[m] = "joining")
      BY <1>0, <1>6 DEF Join, CheckLeader, Enter, ElectionTypeOK
    <2>3. phase[m] = "down" => replies[m] = << >>
      BY DEF KeyInv, Tidy, Quiet
    <2>4. Settled(m)'
      BY <2>1, <2>2, <2>3, EmptyFacts DEF Settled, Checks, services
    <2>5. Tracking(m)'
      BY <2>1, <2>2 DEF Tracking, Tracked, services
    <2>6. QED
      BY <2>4, <2>5
  <1>7. CASE RegisterEventHandlers(m) \/ InitPruning(m) \/ StopServices(m)
    <2>1. /\ replies' = replies /\ instanceRole' = instanceRole /\ key' = key /\ lapses' = lapses
          /\ renewing' = renewing /\ mainTimer' = mainTimer /\ untimely' = untimely
          /\ Checks(m) /\ phase'[m] \in Tracked
      BY <1>0, <1>7 DEF RegisterEventHandlers, InitPruning, StopServices, StartUp, BeginStop, Enter,
                        Checks, Tracked, services, ElectionTypeOK
    <2>2. phase[m] \in Tracked \/ ~mainTimer[m].set \/ m \in untimely \/ lapses # 0
      BY DEF Tracking
    <2>3. QED
      BY <2>1, <2>2 DEF Settled, Tracking
  <1>8. CASE InitTracking(m)
    <2>1. /\ replies' = replies /\ instanceRole' = instanceRole /\ key' = key /\ lapses' = lapses
          /\ renewing' = renewing /\ untimely' = untimely
          /\ phase[m] = "starting" /\ phase'[m] = "loading" /\ Checks(m)
          /\ \/ mainTimer' = mainTimer
             \/ /\ instanceRole[m] = "leader"
                /\ mainTimer' = [mainTimer EXCEPT ![m] = Arm(mainTimer[m])]
      BY <1>0, <1>8 DEF InitTracking, StartUp, Enter, isLeader, StartTracking, Checks, ElectionTypeOK
    <2>2. lapses = 0 /\ instanceRole[m] = "leader" => key = m /\ m \in renewing
      BY <2>1 DEF KeyInv, Claims
    <2>3. Settled(m)'
      BY <1>1, <2>1 DEF Settled
    <2>4. Tracking(m)'
      BY <1>1, <1>2, <2>1, <2>2 DEF Tracking, Tracked
    <2>5. QED
      BY <2>3, <2>4
  <1>9. CASE StopTrackingFirst(m)
    <2>1. /\ replies' = replies /\ instanceRole' = instanceRole /\ lapses' = lapses /\ Checks(m)
          /\ mainTimer'[m] = Clear(mainTimer[m]) /\ untimely' = untimely
      BY <1>1, <1>9 DEF StopTrackingFirst, StopTracking, LeaveTracking, Checks
    <2>2. QED
      BY <1>2, <2>1 DEF Settled, Tracking
  <1>10. CASE (Shutdown(m) \/ Cleared(m)) /\ UNCHANGED services
    <2>1. /\ phase'[m] \in {"clearing", "draining"} /\ phase[m] \in {"leaving", "clearing"}
          /\ UNCHANGED services /\ lapses' = lapses
      BY <1>0, <1>10 DEF Shutdown, Cleared, Enter, ElectionTypeOK
    <2>2. QED
      BY <2>1 DEF Settled, Tracking, Checks, Tracked, services
  <1>11. CASE Ends(m)
    <2>1. mainTimer'[m] = Off /\ phase'[m] = "down"
      BY <1>0, <1>1, <1>11 DEF Ends, Exit, Crash, End, Enter, ElectionTypeOK
    <2>2. QED
      BY <1>2, <2>1 DEF Settled, Tracking, Checks
  <1>12. QED
    BY <1>3, <1>4, <1>5, <1>6, <1>7, <1>8, <1>9, <1>10, <1>11 DEF Election

\* Two mains look for waiting executions at a time (WaitTracker.startTracking,
\* stopTracking) only after a lapse of the key, or if a role changed while its services
\* could not follow: for any number of mains, of checks that overlap, of crashes and
\* restarts, and whatever names survive a restart.
THEOREM OneMainTracks == Spec => []AloneAtWork
  <1> DEFINE Inv == KeyInv /\ TimersTypeOK /\ AloneInv
  <1>1. Init => Inv
    <2>1. SUFFICES ASSUME Init PROVE Inv
      OBVIOUS
    <2>2. TimersTypeOK
      BY <2>1, OffFacts DEF Init, TimersTypeOK
    <2>3. AloneInv
      BY <2>1, OffFacts, EmptyFacts DEF Init, ElectionInit, AloneInv, Settled, Tracking, Checks
    <2>4. QED
      BY <2>1, <2>2, <2>3, KeyInvInit
  <1>2. Inv /\ [Next]_vars => Inv'
    <2>1. SUFFICES ASSUME Inv, [Next]_vars PROVE Inv'
      OBVIOUS
    <2>2. [ElectionNext]_election /\ ElectionTypeOK
      BY <2>1, NextElects DEF KeyInv
    <2>3. KeyInv' /\ TimersTypeOK'
      BY <2>1, <2>2, KeyInvStep, TimersTypeStep
    <2>4. ASSUME NEW m \in Mains, Election(m) \/ Work(m), NEW n \in Mains
          PROVE  Settled(n)' /\ Tracking(n)'
      <3>1. Settled(m) /\ Tracking(m) /\ Settled(n) /\ Tracking(n)
        BY <2>1 DEF AloneInv
      <3>2. CASE n = m
        BY <2>1, <2>4, <3>1, <3>2, AloneOfMain
      <3>3. CASE n # m
        <4>1. /\ phase'[n] = phase[n] /\ instanceRole'[n] = instanceRole[n]
              /\ replies'[n] = replies[n]
              /\ mainTimer'[n] = mainTimer[n] /\ (n \in untimely' <=> n \in untimely)
          BY <2>1, <2>2, <2>4, <3>3, OthersServe
        <4>2. /\ lapses' = lapses /\ (n \in renewing => n \in renewing')
              /\ lapses = 0 => key' = key \/ key \in {NoOne, m}
          <5>1. MainNext(m) \/ UNCHANGED election
            BY <2>4 DEF Election, Elect, InitTracking, RegisterEventHandlers, InitPruning,
                        StopServices, StopTrackingFirst, Ends, MainNext,
                        Work, PollWaiting, GetWaitingExecutions, StartExecution
          <5>2. CASE MainNext(m)
            BY <2>1, <2>2, <3>3, <5>2, KeyOfMain, OthersKeep DEF KeyStep
          <5>3. CASE UNCHANGED election
            BY <5>3 DEF election, redis
          <5>4. QED
            BY <5>1, <5>2, <5>3
        <4>3. QED
          BY <3>1, <3>3, <4>1, <4>2, MainsAssumption DEF Settled, Tracking, Checks
      <3>4. QED
        BY <3>2, <3>3
    <2>5. ASSUME UNCHANGED vars PROVE AloneInv'
      BY <2>1, <2>5 DEF vars, AloneInv, Settled, Tracking, Checks
    <2>6. ASSUME Expire, UNCHANGED services, NEW m \in Mains PROVE Settled(m)' /\ Tracking(m)'
      <3>1. /\ UNCHANGED <<phase, instanceRole, replies, renewing, lapses, services>>
            /\ ~(key \in renewing /\ phase[key] # "draining")
        BY <2>6 DEF Expire, Renewed
      <3>2. QED
        BY <2>1, <3>1 DEF AloneInv, Settled, Tracking, Checks, Tracked, services
    <2>7. ASSUME Lapse, NEW m \in Mains PROVE Settled(m)' /\ Tracking(m)'
      BY <2>2, <2>7 DEF Lapse, ElectionTypeOK, Settled, Tracking
    <2>8. AloneInv'
      BY <2>1, <2>4, <2>5, <2>6, <2>7 DEF Next, AloneInv
    <2>9. QED
      BY <2>3, <2>8
  <1>3. Inv => AloneAtWork
    <2>1. SUFFICES ASSUME Inv, lapses = 0, NEW m \in Mains \ untimely, Runs(mainTimer[m])
                   PROVE  key = m
      BY DEF AloneAtWork
    <2>2. mainTimer[m] \in Timer /\ mainTimer[m].stray = 0
      BY <2>1 DEF AloneInv, Tracking, TimersTypeOK
    <2>3. mainTimer[m].set
      BY <2>1, <2>2, TimerFacts
    <2>4. QED
      BY <2>1, <2>3 DEF AloneInv, Tracking
  <1>4. QED
    BY <1>1, <1>2, <1>3, PTL DEF Spec
=============================================================================
