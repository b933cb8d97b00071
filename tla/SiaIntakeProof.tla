---------------------------- MODULE SiaIntakeProof ----------------------------
(***************************************************************************)
(* Theorems about SiaIntake for any number of events, connections and      *)
(* receivers, whatever faults frames have.                                 *)
(***************************************************************************)
EXTENDS SiaIntake, TLAPS

Frames == [ev : Events, wrong : SUBSET Faults]
Replies == [kind : Kinds, ev : Events \cup {0}]
Pcs == {"closed", "read", "record", "discover", "apply", "forward", "write"}
Threads == [pc : Pcs, frame : Frames, kind : Kinds \cup {"none"},
            got : [Targets -> {"none", "ack", "failed"}]]

\* The types of the state, as the argument needs them.
Types ==
    /\ cur \in 1..(MaxEvents + 1) /\ wait \in Conns \cup {None}
    /\ link \in [Conns -> {"none", "open", "broken"}]
    /\ input \in [Conns -> Seq(Frames)]
    /\ answers \in [Conns -> Seq(Replies)]
    /\ th \in [Conns -> Threads]
    /\ history \in Seq(Frames) /\ catalog \in SUBSET Events
    /\ applied \in Seq(Events) /\ up \in [Targets -> Seq(Events)]

\* What the bridge has done with an event.
Kept(e) == \E i \in DOMAIN history : history[i].ev = e /\ Sound(history[i])
Applied(e) == e \in ToSet(applied)
Received(g, e) == e \in ToSet(up[g])
Done(e) == /\ Kept(e) /\ e \in catalog /\ Applied(e)
           /\ RequireACK => \A g \in Targets : Received(g, e)

\* Nothing comes from the future.
NotAhead ==
    \A c \in Conns : /\ th[c].frame.ev <= cur
                     /\ \A i \in DOMAIN input[c] : input[c][i].ev <= cur

\* How far the goroutine of a connection has got with its frame.
Stage(c) ==
    LET e == th[c].frame.ev
    IN  /\ th[c].pc \in {"discover", "apply", "forward"} => Kept(e)
        /\ th[c].pc \in {"apply", "forward"} => e \in catalog
        /\ th[c].pc = "forward" => Applied(e)
        /\ \A g \in Targets : th[c].got[g] = "ack" => Received(g, e)
        /\ th[c].pc = "write" /\ th[c].kind = "ACK" => Done(e)

\* An acknowledgement on its way is deserved.
Deserved(c) ==
    \A i \in DOMAIN answers[c] :
        answers[c][i].kind = "ACK" /\ answers[c][i].ev # 0 => Done(answers[c][i].ev)

Past == \A e \in 1..(cur - 1) : Done(e)

Inv == Types /\ NotAhead /\ (\A c \in Conns : Stage(c) /\ Deserved(c)) /\ Past
-----------------------------------------------------------------------------
(* Sequences and faults                                                    *)

LEMMA AppendFacts ==
    ASSUME NEW S, NEW s \in Seq(S), NEW x \in S
    PROVE  /\ Append(s, x) \in Seq(S)
           /\ ToSet(s) \subseteq ToSet(Append(s, x)) /\ x \in ToSet(Append(s, x))
           /\ DOMAIN Append(s, x) = 1..(Len(s) + 1) /\ DOMAIN s = 1..Len(s)
           /\ \A i \in DOMAIN s : i \in DOMAIN Append(s, x) /\ Append(s, x)[i] = s[i]
           /\ Append(s, x)[Len(s) + 1] = x /\ Len(s) \in Nat
BY DEF ToSet

LEMMA TailFacts ==
    ASSUME NEW S, NEW s \in Seq(S), s # <<>>
    PROVE  /\ Tail(s) \in Seq(S) /\ Head(s) \in S
           /\ \A i \in DOMAIN Tail(s) : i + 1 \in DOMAIN s /\ Tail(s)[i] = s[i + 1]
           /\ 1 \in DOMAIN s /\ Head(s) = s[1]
OBVIOUS

LEMMA MinIsMember ==
    ASSUME NEW S \in SUBSET (1..6), S # {}
    PROVE  Min(S) \in S
<1>1. \E x \in S : \A y \in S : x <= y
  <2>1. CASE 1 \in S
    BY <2>1
  <2>2. CASE 1 \notin S /\ 2 \in S
    BY <2>2
  <2>3. CASE 1 \notin S /\ 2 \notin S /\ 3 \in S
    BY <2>3
  <2>4. CASE 1 \notin S /\ 2 \notin S /\ 3 \notin S /\ 4 \in S
    BY <2>4
  <2>5. CASE 1 \notin S /\ 2 \notin S /\ 3 \notin S /\ 4 \notin S
    <3>1. CASE 5 \in S
      BY <2>5, <3>1
    <3>2. CASE 5 \notin S
      <4>1. \A y \in S : y = 6
        BY <2>5, <3>2
      <4>2. PICK x \in S : TRUE
        OBVIOUS
      <4> QED
        BY <4>1, <4>2
    <3> QED
      BY <3>1, <3>2
  <2> QED
    BY <2>1, <2>2, <2>3, <2>4, <2>5
<1> QED
  BY <1>1 DEF Min

\* Only a frame without a fault the bridge looks for is taken for good.
LEMMA ParsedIsSound ==
    ASSUME NEW f \in Frames, Parse(f) = "ok"
    PROVE  Sound(f)
<1> DEFINE order == <<"empty", "header", "length", "crc", "decrypt", "account">>
           wrong == f.wrong \cap LookedFor
           found == {i \in DOMAIN order : order[i] \in wrong}
<1>1. found \in SUBSET (1..6)
  OBVIOUS
<1>2. found = {}
  <2> SUFFICES ASSUME found # {} PROVE FALSE
    OBVIOUS
  <2>1. Parse(f) = order[Min(found)]
    BY DEF Parse, FirstOf
  <2>2. Min(found) \in 1..6
    BY <1>1, MinIsMember
  <2> HIDE DEF found
  <2>3. order[Min(found)] # "ok"
    BY <2>2
  <2> QED
    BY <2>1, <2>3
<1>3. wrong = {}
  <2>1. \A x \in Faults : \E i \in 1..6 : order[i] = x
    BY DEF Faults
  <2>2. wrong \subseteq Faults
    BY DEF Frames
  <2>3. \A i \in 1..6 : order[i] \notin wrong
    BY <1>2
  <2> QED
    BY <2>1, <2>2, <2>3
<1> QED
  BY <1>3 DEF Sound
-----------------------------------------------------------------------------
(* Types                                                                   *)

LEMMA ThreadTypes ==
    ASSUME NEW t \in Threads
    PROVE  /\ t.pc \in Pcs /\ t.frame \in Frames /\ t.kind \in Kinds \cup {"none"}
           /\ t.got \in [Targets -> {"none", "ack", "failed"}]
           /\ \A p \in Pcs : [t EXCEPT !.pc = p] \in Threads
           /\ \A p \in Pcs, k \in Kinds \cup {"none"} : [t EXCEPT !.pc = p, !.kind = k] \in Threads
           /\ \A g \in Targets, r \in {"ack", "failed"} : [t EXCEPT !.got[g] = r] \in Threads
BY DEF Threads

LEMMA IdleTypes ==
    /\ Idle \in Threads
    /\ \A f \in Frames : [Idle EXCEPT !.pc = "record", !.frame = f] \in Threads
<1>1. Frame(1, {}) \in Frames
  BY SomeEvents DEF Frame, Frames, Events
<1> QED
  BY <1>1 DEF Idle, Unsent, Pcs, Threads

LEMMA TypesInit == Init => Types
<1> SUFFICES ASSUME Init PROVE Types
  OBVIOUS
<1>2. cur \in 1..(MaxEvents + 1) /\ wait \in Conns \cup {None}
  BY SomeEvents DEF Init
<1>3. link \in [Conns -> {"none", "open", "broken"}]
  BY DEF Init
<1>4. input \in [Conns -> Seq(Frames)] /\ answers \in [Conns -> Seq(Replies)]
  BY DEF Init
<1>5. th \in [Conns -> Threads]
  BY IdleTypes DEF Init
<1>6. history \in Seq(Frames) /\ catalog \in SUBSET Events
  BY DEF Init
<1>7. applied \in Seq(Events) /\ up \in [Targets -> Seq(Events)]
  BY DEF Init
<1> QED
  BY <1>2, <1>3, <1>4, <1>5, <1>6, <1>7 DEF Types

LEMMA VerdictTypes ==
    ASSUME NEW f \in Frames
    PROVE  Parse(f) = "ok" \/ Rejection(Parse(f)) \in {"none", "NAK", "DUH"}
BY DEF Rejection

LEMMA ThreadStep ==
    ASSUME Types, NEW c \in Conns, NEW t \in Threads, th' = [th EXCEPT ![c] = t]
    PROVE  th' \in [Conns -> Threads]
BY DEF Types

LEMMA ClosedTypes ==
    ASSUME Types, NEW c \in Conns, Closed(c)
    PROVE  /\ th' \in [Conns -> Threads] /\ link' \in [Conns -> {"none", "open", "broken"}]
           /\ input' \in [Conns -> Seq(Frames)] /\ answers' \in [Conns -> Seq(Replies)]
<1>1. th' \in [Conns -> Threads]
  BY IdleTypes, ThreadStep DEF Closed
<1>2. link' \in [Conns -> {"none", "open", "broken"}]
  BY DEF Types, Closed
<1>3. input' \in [Conns -> Seq(Frames)] /\ answers' \in [Conns -> Seq(Replies)]
  <2>1. \A S : <<>> \in Seq(S)
    OBVIOUS
  <2>2. input' = [input EXCEPT ![c] = <<>>] /\ answers' = [answers EXCEPT ![c] = <<>>]
    BY DEF Closed
  <2>3. input \in [Conns -> Seq(Frames)] /\ answers \in [Conns -> Seq(Replies)]
    BY DEF Types
  <2> HIDE DEF Frames, Replies
  <2> QED
    BY <2>1, <2>2, <2>3
<1> QED
  BY <1>1, <1>2, <1>3

LEMMA TypesStep ==
    ASSUME Types, NEW c \in Conns, Hub(c) \/ Handler(c) \/ Close(c)
    PROVE  Types'
<1> USE DEF Types
<1>0. /\ th[c] \in Threads /\ th[c].frame \in Frames
      /\ th[c].got \in [Targets -> {"none", "ack", "failed"}]
      /\ th[c].kind \in Kinds \cup {"none"}
      /\ th[c].frame.ev \in Events
  BY ThreadTypes DEF Frames
<1>a. \A p \in Pcs : Goto(c, p) => th' \in [Conns -> Threads]
  <2> SUFFICES ASSUME NEW p \in Pcs, th' = [th EXCEPT ![c].pc = p]
               PROVE  th' \in [Conns -> Threads]
    BY DEF Goto
  <2>1. th' = [th EXCEPT ![c] = [th[c] EXCEPT !.pc = p]]
    OBVIOUS
  <2>2. [th[c] EXCEPT !.pc = p] \in Threads
    BY <1>0, ThreadTypes
  <2> QED
    BY <2>1, <2>2, ThreadStep
<1>b. \A p \in Pcs, k \in Kinds \cup {"none"} :
         th' = [th EXCEPT ![c].pc = p, ![c].kind = k] => th' \in [Conns -> Threads]
  <2> SUFFICES ASSUME NEW p \in Pcs, NEW k \in Kinds \cup {"none"},
                      th' = [th EXCEPT ![c].pc = p, ![c].kind = k]
               PROVE  th' \in [Conns -> Threads]
    OBVIOUS
  <2>1. th' = [th EXCEPT ![c] = [th[c] EXCEPT !.pc = p, !.kind = k]]
    OBVIOUS
  <2>2. [th[c] EXCEPT !.pc = p, !.kind = k] \in Threads
    BY <1>0, ThreadTypes
  <2> QED
    BY <2>1, <2>2, ThreadStep
<1>1. CASE Open(c)
  BY <1>1, <1>a DEF Open, Pcs, hub, bridge
<1>2. CASE Send(c)
  <2>1. /\ Frame(cur, {}) \in Frames
        /\ \A wrong \in Damages : Frame(cur, wrong) \in Frames
    BY <1>2, DamagesAreFaults DEF Send, Frame, Frames, Events
  <2>2. PICK f \in Frames : input' = [input EXCEPT ![c] = Append(@, f)]
    BY <1>2, <2>1 DEF Send
  <2> QED
    BY <1>2, <2>2 DEF Send, bridge
<1>3. CASE ReadAnswer(c)
  <2>1. answers[c] \in Seq(Replies) /\ answers[c] # <<>>
    BY <1>3 DEF ReadAnswer
  <2>2. Tail(answers[c]) \in Seq(Replies) /\ Head(answers[c]) \in Replies
    BY <2>1, TailFacts
  <2>3. cur' \in 1..(MaxEvents + 1) /\ wait' \in Conns \cup {None}
    BY <1>3, <2>2, SomeEvents DEF ReadAnswer, hub, Replies, Events
  <2> QED
    BY <1>3, <2>2, <2>3 DEF ReadAnswer, bridge
<1>4. CASE GivesUp(c)
  <2>1. link' \in [Conns -> {"none", "open", "broken"}]
    BY <1>4 DEF GivesUp
  <2> QED
    BY <1>4, <2>1 DEF GivesUp, bridge
<1>5. CASE Read(c)
  <2>1. input[c] \in Seq(Frames) /\ input[c] # <<>>
    BY <1>5 DEF Read
  <2>2. Tail(input[c]) \in Seq(Frames) /\ Head(input[c]) \in Frames
    BY <2>1, TailFacts
  <2>3. th' \in [Conns -> Threads]
    BY <1>5, <2>2, IdleTypes DEF Read
  <2> QED
    BY <1>5, <2>2, <2>3 DEF Read, hub, bridge
<1>6. CASE Record(c)
  <2>1. history' \in Seq(Frames)
    BY <1>6, <1>0, AppendFacts DEF Record
  <2>2. Parse(th[c].frame) = "ok" \/ Rejection(Parse(th[c].frame)) \in Kinds \cup {"none"}
    BY <1>0, VerdictTypes DEF Kinds
  <2>3. PICK pc \in Pcs, kind \in Kinds \cup {"none"} :
           th' = [th EXCEPT ![c].pc = pc, ![c].kind = kind]
    BY <1>6, <2>2 DEF Record, Pcs
  <2>4. th' \in [Conns -> Threads]
    BY <2>3, <1>b
  <2> QED
    BY <1>6, <2>1, <2>4 DEF Record, hub, net
<1>7. CASE Discover(c)
  <2>1. catalog' \in SUBSET Events
    BY <1>7, <1>0 DEF Discover
  <2> QED
    BY <1>7, <1>a, <2>1 DEF Discover, Pcs, hub, net
<1>8. CASE Apply(c)
  <2>1. applied' \in Seq(Events)
    BY <1>8, <1>0 DEF Apply
  <2> QED
    BY <1>8, <1>a, <2>1 DEF Apply, Pcs, hub, net
<1>9. ASSUME NEW g \in Targets, Forward(c, g) PROVE Types'
  <2>1. up' \in [Targets -> Seq(Events)]
    <3>1. Append(up[g], th[c].frame.ev) \in Seq(Events)
      BY <1>0
    <3>2. CASE up' = [up EXCEPT ![g] = Append(@, th[c].frame.ev)]
      BY <3>1, <3>2
    <3> QED
      BY <1>9, <3>2 DEF Forward
  <2>2. PICK r \in {"ack", "failed"} : th' = [th EXCEPT ![c].got[g] = r]
    BY <1>9 DEF Forward
  <2>3. th' = [th EXCEPT ![c] = [th[c] EXCEPT !.got[g] = r]]
    BY <2>2
  <2>4. [th[c] EXCEPT !.got[g] = r] \in Threads
    BY <1>0, ThreadTypes
  <2>5. th' \in [Conns -> Threads]
    BY <2>3, <2>4, ThreadStep
  <2> QED
    BY <1>9, <2>1, <2>5 DEF Forward, hub, net, bridge
<1>10. CASE Answer(c)
  <2>1. th' \in [Conns -> Threads]
    BY <1>10, <1>b DEF Answer, Verdict, Pcs, Kinds
  <2> QED
    BY <1>10, <2>1 DEF Answer, hub, net, bridge
<1>11. CASE Write(c)
  <2>1. CASE Closed(c)
    BY <1>11, <2>1, ClosedTypes DEF Write, hub, bridge
  <2>2. CASE Goto(c, "read") /\ UNCHANGED net
    BY <1>11, <2>2, <1>a DEF Write, Pcs, hub, net, bridge
  <2>3. CASE /\ th[c].kind # "none" /\ Goto(c, "read") /\ UNCHANGED <<link, input>>
             /\ answers' = [answers EXCEPT ![c] = Append(@, Reply(th[c].kind, th[c].frame))]
    <3>1. Reply(th[c].kind, th[c].frame) \in Replies
      BY <2>3, <1>0 DEF Reply, Replies
    <3>2. Append(answers[c], Reply(th[c].kind, th[c].frame)) \in Seq(Replies)
      BY <3>1
    <3>3. answers' \in [Conns -> Seq(Replies)]
      BY <2>3, <3>2
    <3>4. th' \in [Conns -> Threads]
      BY <2>3, <1>a DEF Pcs
    <3> QED
      BY <1>11, <2>3, <3>3, <3>4 DEF Write, hub, bridge
  <2> QED
    BY <1>11, <2>1, <2>2, <2>3 DEF Write
<1>12. CASE Close(c)
  BY <1>12, ClosedTypes DEF Close, hub, bridge
<1> QED
  BY <1>1, <1>2, <1>3, <1>4, <1>5, <1>6, <1>7, <1>8, <1>9, <1>10, <1>11, <1>12
  DEF Hub, Handler
-----------------------------------------------------------------------------
(* What is done stays done                                                 *)

Grows ==
    /\ \A e \in Events : Kept(e) => Kept(e)'
    /\ catalog \subseteq catalog'
    /\ \A e \in Events : Applied(e) => Applied(e)'
    /\ \A g \in Targets, e \in Events : Received(g, e) => Received(g, e)'

LEMMA StepGrows ==
    ASSUME Types, NEW c \in Conns, Hub(c) \/ Handler(c) \/ Close(c)
    PROVE  Grows
<1>0. th[c].frame \in Frames /\ th[c].frame.ev \in Events
  BY ThreadTypes DEF Types, Frames
<1>1. history' = history \/ history' = Append(history, th[c].frame)
  BY DEF Hub, Handler, Open, Send, ReadAnswer, GivesUp, Read, Record, Discover, Apply, Forward,
         Answer, Write, Close, bridge
<1>2. \A e \in Events : Kept(e) => Kept(e)'
  <2>1. CASE history' = history
    BY <2>1 DEF Kept
  <2>2. CASE history' = Append(history, th[c].frame)
    <3>1. \A i \in DOMAIN history : i \in DOMAIN history' /\ history'[i] = history[i]
      BY <2>2, <1>0, AppendFacts DEF Types
    <3> QED
      BY <3>1 DEF Kept
  <2> QED
    BY <1>1, <2>1, <2>2
<1>3. catalog \subseteq catalog'
  BY DEF Hub, Handler, Open, Send, ReadAnswer, GivesUp, Read, Record, Discover, Apply, Forward,
         Answer, Write, Close, bridge
<1>4. applied' = applied \/ applied' = Append(applied, th[c].frame.ev)
  BY DEF Hub, Handler, Open, Send, ReadAnswer, GivesUp, Read, Record, Discover, Apply, Forward,
         Answer, Write, Close, bridge
<1>5. ToSet(applied) \subseteq ToSet(applied')
  <2>1. applied \in Seq(Events)
    BY DEF Types
  <2>2. ToSet(applied) \subseteq ToSet(Append(applied, th[c].frame.ev))
    BY <2>1, <1>0, AppendFacts
  <2> QED
    BY <1>4, <2>2
<1>6. up' = up \/ \E g \in Targets : up' = [up EXCEPT ![g] = Append(@, th[c].frame.ev)]
  BY DEF Hub, Handler, Open, Send, ReadAnswer, GivesUp, Read, Record, Discover, Apply, Forward,
         Answer, Write, Close
<1>7. ASSUME NEW h \in Targets PROVE ToSet(up[h]) \subseteq ToSet(up'[h])
  <2>1. up'[h] = up[h] \/ up'[h] = Append(up[h], th[c].frame.ev)
    BY <1>6 DEF Types
  <2>2. up[h] \in Seq(Events)
    BY DEF Types
  <2>3. ToSet(up[h]) \subseteq ToSet(Append(up[h], th[c].frame.ev))
    BY <1>0, <2>2, AppendFacts
  <2> QED
    BY <2>1, <2>3
<1> QED
  BY <1>2, <1>3, <1>5, <1>7 DEF Grows, Applied, Received

LEMMA DoneStays ==
    ASSUME Grows, NEW e \in Events, Done(e)
    PROVE  Done(e)'
BY DEF Grows, Done

LEMMA StageStays ==
    ASSUME Types, Grows, NEW d \in Conns, Stage(d), th'[d] = th[d]
    PROVE  Stage(d)'
<1>1. PICK e \in Events : e = th[d].frame.ev
  BY ThreadTypes DEF Types, Frames
<1>2. Done(e) => Done(e)'
  BY DoneStays
<1>3. e = th'[d].frame.ev
  BY <1>1
<1>4. th[d].pc = "write" /\ th[d].kind = "ACK" => Done(e)'
  BY <1>1, <1>2 DEF Stage
<1>5. th[d].pc \in {"discover", "apply", "forward"} => Kept(e)'
  BY <1>1 DEF Stage, Grows
<1>6. th[d].pc \in {"apply", "forward"} => e \in catalog'
  BY <1>1 DEF Stage, Grows
<1>7. /\ th[d].pc = "forward" => Applied(e)'
      /\ \A g \in Targets : th[d].got[g] = "ack" => Received(g, e)'
  BY <1>1 DEF Stage, Grows
<1> QED
  BY <1>3, <1>4, <1>5, <1>6, <1>7 DEF Stage

LEMMA DeservedStays ==
    ASSUME Types, Grows, NEW d \in Conns, Deserved(d), answers'[d] = answers[d]
    PROVE  Deserved(d)'
<1>1. ASSUME NEW i \in DOMAIN answers[d], answers[d][i].ev # 0
      PROVE  answers[d][i].ev \in Events
  <2>1. answers[d] \in Seq(Replies)
    BY DEF Types
  <2>2. answers[d][i] \in Replies
    BY <2>1
  <2> QED
    BY <1>1, <2>2 DEF Replies
<1> QED
  BY <1>1, DoneStays DEF Deserved
-----------------------------------------------------------------------------
(* The invariant is inductive                                              *)

\* Only the goroutine of c, and only its connection, moves.
LEMMA OthersRest ==
    ASSUME Types, NEW c \in Conns, Hub(c) \/ Handler(c) \/ Close(c), NEW d \in Conns, d # c
    PROVE  th'[d] = th[d] /\ answers'[d] = answers[d] /\ input'[d] = input[d]
<1>1. /\ th' = th \/ \E t : th' = [th EXCEPT ![c] = t]
      /\ answers' = answers \/ \E t : answers' = [answers EXCEPT ![c] = t]
      /\ input' = input \/ \E t : input' = [input EXCEPT ![c] = t]
  <2>1. CASE Hub(c)
    BY <2>1 DEF Hub, Open, Send, ReadAnswer, GivesUp, Goto
  <2>2. CASE Close(c)
    BY <2>2 DEF Close, Closed
  <2>3. CASE Read(c) \/ Record(c) \/ Discover(c) \/ Apply(c) \/ Answer(c)
    BY <2>3 DEF Read, Record, Discover, Apply, Answer, Goto, net
  <2>4. CASE \E g \in Targets : Forward(c, g)
    BY <2>4 DEF Forward, net
  <2>5. CASE Write(c)
    BY <2>5 DEF Write, Closed, Goto, net
  <2> QED
    BY <2>1, <2>2, <2>3, <2>4, <2>5 DEF Handler
<1> QED
  BY <1>1 DEF Types

LEMMA CurGrows ==
    ASSUME Types, NEW c \in Conns, Hub(c) \/ Handler(c) \/ Close(c)
    PROVE  cur \in Nat /\ cur' \in Nat /\ 1 <= cur /\ cur <= cur'
<1>1. cur \in Nat /\ 1 <= cur
  BY SomeEvents DEF Types
<1>2. cur' = cur \/ cur' = cur + 1
  BY DEF Hub, Handler, Open, Send, ReadAnswer, GivesUp, Read, Record, Discover, Apply, Forward,
         Answer, Write, Close, hub
<1> QED
  BY <1>1, <1>2

LEMMA NotAheadStep ==
    ASSUME Inv, NEW c \in Conns, Hub(c) \/ Handler(c) \/ Close(c)
    PROVE  NotAhead'
<1> USE DEF Inv
<1>0. cur \in Nat /\ cur' \in Nat /\ 1 <= cur /\ cur <= cur'
  BY CurGrows
<1>1. ASSUME NEW d \in Conns, d # c
      PROVE  th'[d].frame.ev <= cur' /\ \A i \in DOMAIN input'[d] : input'[d][i].ev <= cur'
  <2>1. th'[d] = th[d] /\ input'[d] = input[d]
    BY <1>1, OthersRest
  <2>2. th[d].frame.ev \in Nat /\ \A i \in DOMAIN input[d] : input[d][i].ev \in Nat
    <3>1. th[d].frame \in Frames /\ input[d] \in Seq(Frames)
      BY ThreadTypes DEF Types
    <3>2. \A i \in DOMAIN input[d] : input[d][i] \in Frames
      BY <3>1
    <3> QED
      BY <3>1, <3>2 DEF Frames, Events
  <2> QED
    BY <1>0, <2>1, <2>2 DEF NotAhead
<1>2. th[c].frame.ev \in Nat /\ \A i \in DOMAIN input[c] : input[c][i].ev \in Nat
  <2>1. th[c].frame \in Frames /\ input[c] \in Seq(Frames)
    BY ThreadTypes DEF Types
  <2>2. \A i \in DOMAIN input[c] : input[c][i] \in Frames
    BY <2>1
  <2> QED
    BY <2>1, <2>2 DEF Frames, Events
<1>3. th'[c].frame.ev <= cur'
  <2>1. CASE th'[c].frame = th[c].frame
    BY <2>1, <1>0, <1>2 DEF NotAhead
  <2>2. CASE Closed(c)
    BY <2>2, <1>0 DEF Closed, Idle, Frame, Types
  <2>3. CASE Read(c)
    <3>1. input[c] \in Seq(Frames) /\ input[c] # <<>>
      BY <2>3 DEF Read, Types
    <3>2. 1 \in DOMAIN input[c] /\ Head(input[c]) = input[c][1]
      BY <3>1, TailFacts
    <3>3. th'[c].frame = Head(input[c])
      BY <2>3 DEF Read, Idle, Types
    <3> QED
      BY <1>0, <1>2, <3>2, <3>3 DEF NotAhead
  <2>4. CASE Hub(c)
    <3>1. th' = th \/ Goto(c, "read")
      BY <2>4 DEF Hub, Open, Send, ReadAnswer, GivesUp
    <3> QED
      BY <2>1, <3>1 DEF Goto, Types, Threads
  <2>5. CASE Record(c) \/ Discover(c) \/ Apply(c) \/ Answer(c) \/ \E g \in Targets : Forward(c, g)
    <3>1. th'[c].frame = th[c].frame
      BY <2>5 DEF Record, Discover, Apply, Answer, Forward, Goto, Types, Threads
    <3> QED
      BY <2>1, <3>1
  <2>6. CASE Write(c)
    <3>1. CASE Goto(c, "read")
      BY <2>1, <3>1 DEF Goto, Types, Threads
    <3> QED
      BY <2>2, <2>6, <3>1 DEF Write
  <2>7. CASE Close(c)
    BY <2>2, <2>7 DEF Close
  <2> QED
    BY <2>3, <2>4, <2>5, <2>6, <2>7 DEF Handler
<1>4. \A i \in DOMAIN input'[c] : input'[c][i].ev <= cur'
  <2>1. CASE input' = input
    BY <2>1, <1>0, <1>2 DEF NotAhead
  <2>2. CASE Closed(c)
    BY <2>2 DEF Closed, Types
  <2>3. CASE Read(c)
    <3>1. input[c] \in Seq(Frames) /\ input[c] # <<>>
      BY <2>3 DEF Read, Types
    <3>2. input'[c] = Tail(input[c])
      BY <2>3 DEF Read, Types
    <3>3. \A i \in DOMAIN input'[c] : i + 1 \in DOMAIN input[c] /\ input'[c][i] = input[c][i + 1]
      BY <3>1, <3>2, TailFacts
    <3> QED
      BY <1>0, <1>2, <3>3 DEF NotAhead
  <2>4. CASE Send(c)
    <3>1. \E wrong : input'[c] = Append(input[c], Frame(cur, wrong))
      BY <2>4 DEF Send, Types
    <3>2. PICK f : input'[c] = Append(input[c], f) /\ f.ev = cur
      BY <3>1 DEF Frame
    <3>3. input[c] \in Seq(Frames)
      BY DEF Types
    <3>4. ASSUME NEW i \in DOMAIN input'[c] PROVE input'[c][i].ev <= cur'
      <4>1. CASE i \in DOMAIN input[c]
        <5>1. input'[c][i] = input[c][i]
          BY <3>2, <3>3, <4>1
        <5> QED
          BY <5>1, <4>1, <1>0, <1>2 DEF NotAhead
      <4>2. CASE i \notin DOMAIN input[c]
        <5>1. input'[c][i] = f
          BY <3>2, <3>3, <3>4, <4>2
        <5> QED
          BY <5>1, <3>2, <1>0
      <4> QED
        BY <4>1, <4>2
    <3> QED
      BY <3>4
  <2> QED
    BY <2>1, <2>2, <2>3, <2>4 DEF Hub, Handler, Open, ReadAnswer, GivesUp, Record, Discover, Apply,
       Forward, Answer, Write, Close, net
<1> QED
  BY <1>1, <1>3, <1>4 DEF NotAhead

LEMMA StageStep ==
    ASSUME Inv, NEW c \in Conns, Hub(c) \/ Handler(c) \/ Close(c)
    PROVE  \A d \in Conns : Stage(d)'
<1> USE DEF Inv
<1>0. Grows /\ Types'
  BY StepGrows, TypesStep
<1>1. ASSUME NEW d \in Conns, d # c PROVE Stage(d)'
  BY <1>0, <1>1, OthersRest, StageStays
<1> SUFFICES Stage(c)'
  BY <1>1
<1>2. ASSUME th'[c] = th[c] PROVE Stage(c)'
  BY <1>0, <1>2, StageStays
<1>e. PICK e \in Events : e = th[c].frame.ev
  BY ThreadTypes DEF Types, Frames
<1>t. th \in [Conns -> Threads] /\ th[c] \in Threads
  BY DEF Types
<1>g. th'[c].got = th[c].got => \A g \in Targets : th'[c].got[g] = "ack" => Received(g, e)'
  BY <1>0, <1>e DEF Stage, Grows
<1>3. ASSUME th'[c].pc \in {"closed", "read", "record"},
             \/ th'[c].got = Unsent
             \/ th'[c].got = th[c].got /\ th'[c].frame = th[c].frame
      PROVE  Stage(c)'
  <2>1. CASE th'[c].got = Unsent
    BY <1>3, <2>1 DEF Stage, Unsent
  <2>2. CASE th'[c].got = th[c].got /\ th'[c].frame = th[c].frame
    <3>1. \A g \in Targets : th'[c].got[g] = "ack" => Received(g, e)'
      BY <1>g, <2>2
    <3> QED
      BY <1>3, <1>e, <2>2, <3>1 DEF Stage
  <2> QED
    BY <1>3, <2>1, <2>2
<1>r. ASSUME Goto(c, "read") PROVE Stage(c)'
  <2>1. th'[c].pc = "read" /\ th'[c].got = th[c].got /\ th'[c].frame = th[c].frame
    BY <1>r, <1>t DEF Goto, Threads
  <2> QED
    BY <2>1, <1>3
<1>i. ASSUME th'[c] = Idle PROVE Stage(c)'
  <2>1. th'[c].pc = "closed" /\ th'[c].got = Unsent
    BY <1>i DEF Idle
  <2> QED
    BY <2>1, <1>3
<1>4. CASE Hub(c)
  <2>1. th' = th \/ Goto(c, "read")
    BY <1>4 DEF Hub, Open, Send, ReadAnswer, GivesUp
  <2> QED
    BY <2>1, <1>2, <1>r
<1>5. CASE Read(c)
  <2>1. th'[c].pc = "record" /\ th'[c].got = Unsent
    BY <1>5, <1>t DEF Read, Idle
  <2> QED
    BY <2>1, <1>3
<1>6. CASE Close(c)
  BY <1>i, <1>6, <1>t DEF Close, Closed
<1>7. CASE Record(c)
  <2>1. CASE Parse(th[c].frame) = "ok"
    <3>1. th'[c].pc = "discover" /\ th'[c].frame = th[c].frame /\ th'[c].got = th[c].got
      BY <1>7, <2>1, <1>t DEF Record, Threads
    <3>2. Sound(th[c].frame)
      BY <2>1, <1>t, ThreadTypes, ParsedIsSound
    <3>3. Kept(e)'
      <4>1. history \in Seq(Frames) /\ th[c].frame \in Frames /\ history' = Append(history, th[c].frame)
        BY <1>7, ThreadTypes DEF Record, Types
      <4>2. Len(history) + 1 \in DOMAIN history' /\ history'[Len(history) + 1] = th[c].frame
        BY <4>1, AppendFacts
      <4> QED
        BY <4>2, <3>2, <1>e DEF Kept, Sound
    <3> QED
      BY <3>1, <3>3, <1>e, <1>g DEF Stage
  <2>2. CASE Parse(th[c].frame) # "ok"
    <3>1. /\ th'[c].pc = "write" /\ th'[c].kind = Rejection(Parse(th[c].frame))
          /\ th'[c].frame = th[c].frame /\ th'[c].got = th[c].got
      BY <1>7, <2>2, <1>t DEF Record, Threads
    <3>2. th'[c].kind # "ACK"
      BY <2>2, <3>1, VerdictTypes, ThreadTypes, <1>t
    <3> QED
      BY <3>1, <3>2, <1>e, <1>g DEF Stage
  <2> QED
    BY <2>1, <2>2
<1>8. CASE Discover(c)
  <2>1. /\ th'[c].pc = "apply" /\ th'[c].frame = th[c].frame /\ th'[c].got = th[c].got
        /\ e \in catalog'
    BY <1>8, <1>t, <1>e DEF Discover, Goto, Threads
  <2>2. Kept(e)'
    BY <1>8, <1>e, <1>0 DEF Discover, Stage, Grows
  <2> QED
    BY <2>1, <2>2, <1>e, <1>g DEF Stage
<1>9. CASE Apply(c)
  <2>1. th'[c].pc = "forward" /\ th'[c].frame = th[c].frame /\ th'[c].got = th[c].got
    BY <1>9, <1>t DEF Apply, Goto, Threads
  <2>2. Kept(e)' /\ e \in catalog'
    BY <1>9, <1>e, <1>0 DEF Apply, Stage, Grows
  <2>3. Applied(e)'
    <3>1. applied \in Seq(Events) /\ applied' = Append(applied, e)
      BY <1>9, <1>e DEF Apply, Types
    <3> QED
      BY <3>1, AppendFacts DEF Applied
  <2> QED
    BY <2>1, <2>2, <2>3, <1>e, <1>g DEF Stage
<1>10. ASSUME NEW g \in Targets, Forward(c, g) PROVE Stage(c)'
  <2>1. /\ th'[c].pc = "forward" /\ th'[c].frame = th[c].frame
        /\ \A h \in Targets : h # g => th'[c].got[h] = th[c].got[h]
    BY <1>10, <1>t DEF Forward, Threads
  <2>2. th'[c].got[g] = "ack" => up' = [up EXCEPT ![g] = Append(@, e)]
    BY <1>10, <1>t, <1>e DEF Forward, Threads
  <2>3. th'[c].got[g] = "ack" => Received(g, e)'
    <3>1. up[g] \in Seq(Events) /\ (th'[c].got[g] = "ack" => up'[g] = Append(up[g], e))
      BY <2>2 DEF Types
    <3>2. e \in ToSet(Append(up[g], e))
      BY <3>1, AppendFacts
    <3> QED
      BY <3>1, <3>2 DEF Received
  <2>4. ASSUME NEW h \in Targets, h # g, th'[c].got[h] = "ack" PROVE Received(h, e)'
    BY <2>1, <2>4, <1>0, <1>e DEF Stage, Grows
  <2>5. Kept(e)' /\ e \in catalog' /\ Applied(e)'
    BY <1>10, <1>0, <1>e DEF Forward, Stage, Grows
  <2> QED
    BY <2>1, <2>3, <2>4, <2>5, <1>e DEF Stage
<1>11. CASE Answer(c)
  <2>1. /\ th'[c].pc = "write" /\ th'[c].frame = th[c].frame /\ th'[c].got = th[c].got
        /\ th'[c].kind = Verdict(th[c].got)
    BY <1>11, <1>t DEF Answer, Threads
  <2>2. Kept(e)' /\ e \in catalog' /\ Applied(e)'
    BY <1>11, <1>0, <1>e DEF Answer, Stage, Grows
  <2>3. th'[c].kind = "ACK" /\ RequireACK => \A g \in Targets : Received(g, e)'
    <3>1. th'[c].kind = "ACK" /\ RequireACK => \A g \in Targets : th'[c].got[g] = "ack"
      BY <2>1 DEF Verdict
    <3> QED
      BY <3>1, <2>1, <1>g
  <2>4. th'[c].kind = "ACK" => Done(e)'
    BY <2>2, <2>3 DEF Done
  <2> QED
    BY <2>1, <2>4, <1>e, <1>g DEF Stage
<1>12. CASE Write(c)
  <2>1. CASE Goto(c, "read")
    BY <2>1, <1>r
  <2>2. CASE Closed(c)
    BY <2>2, <1>i, <1>t DEF Closed
  <2> QED
    BY <1>12, <2>1, <2>2 DEF Write
<1> QED
  BY <1>4, <1>5, <1>6, <1>7, <1>8, <1>9, <1>10, <1>11, <1>12 DEF Handler

LEMMA DeservedStep ==
    ASSUME Inv, NEW c \in Conns, Hub(c) \/ Handler(c) \/ Close(c)
    PROVE  \A d \in Conns : Deserved(d)'
<1> USE DEF Inv
<1>0. Grows /\ Types'
  BY StepGrows, TypesStep
<1>1. ASSUME NEW d \in Conns, d # c PROVE Deserved(d)'
  BY <1>0, <1>1, OthersRest, DeservedStays
<1> SUFFICES Deserved(c)'
  BY <1>1
<1>2. ASSUME answers'[c] = answers[c] PROVE Deserved(c)'
  BY <1>0, <1>2, DeservedStays
<1>a. answers \in [Conns -> Seq(Replies)] /\ answers[c] \in Seq(Replies)
  BY DEF Types
<1>b. \A i \in DOMAIN answers[c] :
         /\ answers[c][i].ev \in Events \cup {0}
         /\ answers[c][i].kind = "ACK" /\ answers[c][i].ev # 0 => Done(answers[c][i].ev)
  <2>1. \A i \in DOMAIN answers[c] : answers[c][i] \in Replies
    BY <1>a
  <2> QED
    BY <2>1 DEF Deserved, Replies
<1>3. ASSUME Closed(c) PROVE Deserved(c)'
  BY <1>3, <1>a DEF Closed, Deserved
<1>4. CASE ReadAnswer(c)
  <2>1. answers'[c] = Tail(answers[c]) /\ answers[c] # <<>>
    BY <1>4, <1>a DEF ReadAnswer
  <2>2. \A i \in DOMAIN answers'[c] : i + 1 \in DOMAIN answers[c] /\ answers'[c][i] = answers[c][i + 1]
    BY <2>1, <1>a, TailFacts
  <2>3. ASSUME NEW i \in DOMAIN answers'[c], answers'[c][i].kind = "ACK", answers'[c][i].ev # 0
        PROVE  \E e \in Events : e = answers'[c][i].ev /\ Done(e)'
    <3>1. PICK e \in Events : e = answers[c][i + 1].ev /\ Done(e)
      BY <2>2, <2>3, <1>b
    <3>2. Done(e)'
      BY <3>1, <1>0, DoneStays
    <3> QED
      BY <3>1, <3>2, <2>2, <2>3
  <2> QED
    BY <2>3 DEF Deserved
<1>5. CASE /\ Write(c) /\ th[c].kind # "none"
           /\ answers' = [answers EXCEPT ![c] = Append(@, Reply(th[c].kind, th[c].frame))]
  <2> DEFINE r == Reply(th[c].kind, th[c].frame)
  <2>0. PICK e \in Events : e = th[c].frame.ev
    BY ThreadTypes DEF Types, Frames
  <2>1. r \in Replies
    BY <1>5, <2>0, ThreadTypes DEF Types, Reply, Replies
  <2>2. r.kind = "ACK" /\ r.ev # 0 => r.ev = e /\ Done(e)
    BY <1>5, <2>0 DEF Write, Reply, Stage
  <2>3. Done(e) => Done(e)'
    BY <1>0, DoneStays
  <2> HIDE DEF r
  <2>4. answers'[c] = Append(answers[c], r)
    BY <1>5, <1>a DEF r
  <2>5. ASSUME NEW i \in DOMAIN answers'[c], answers'[c][i].kind = "ACK", answers'[c][i].ev # 0
        PROVE  \E x \in Events : x = answers'[c][i].ev /\ Done(x)'
    <3>1. CASE i \in DOMAIN answers[c]
      <4>1. answers'[c][i] = answers[c][i]
        BY <3>1, <2>1, <2>4, <1>a, AppendFacts
      <4>2. PICK x \in Events : x = answers[c][i].ev /\ Done(x)
        BY <4>1, <3>1, <2>5, <1>b
      <4>3. Done(x)'
        BY <4>2, <1>0, DoneStays
      <4> QED
        BY <4>1, <4>2, <4>3
    <3>2. CASE i \notin DOMAIN answers[c]
      <4>1. answers'[c][i] = r
        <5>1. /\ DOMAIN answers'[c] = 1..(Len(answers[c]) + 1)
              /\ DOMAIN answers[c] = 1..Len(answers[c]) /\ Len(answers[c]) \in Nat
              /\ answers'[c][Len(answers[c]) + 1] = r
          BY <2>1, <2>4, <1>a, AppendFacts
        <5>2. i = Len(answers[c]) + 1
          BY <5>1, <3>2, <2>5
        <5> QED
          BY <5>1, <5>2
      <4> QED
        BY <4>1, <2>2, <2>3, <2>5
    <3> QED
      BY <3>1, <3>2
  <2> QED
    BY <2>5 DEF Deserved
<1>6. CASE Open(c) \/ Send(c) \/ GivesUp(c)
  BY <1>6, <1>2 DEF Open, Send, GivesUp
<1>7. CASE Read(c) \/ Record(c) \/ Discover(c) \/ Apply(c) \/ Answer(c)
  BY <1>7, <1>2 DEF Read, Record, Discover, Apply, Answer, net
<1>8. ASSUME NEW g \in Targets, Forward(c, g) PROVE Deserved(c)'
  BY <1>8, <1>2 DEF Forward, net
<1>9. CASE Write(c)
  BY <1>2, <1>3, <1>5, <1>9 DEF Write, net
<1>10. CASE Close(c)
  BY <1>3, <1>10 DEF Close
<1> QED
  BY <1>4, <1>6, <1>7, <1>8, <1>9, <1>10 DEF Hub, Handler

LEMMA PastStep ==
    ASSUME Inv, NEW c \in Conns, Hub(c) \/ Handler(c) \/ Close(c)
    PROVE  Past'
<1> USE DEF Inv
<1>0. Grows /\ cur \in 1..(MaxEvents + 1) /\ MaxEvents \in Nat
  BY StepGrows, SomeEvents DEF Types
<1>1. ASSUME NEW e \in 1..(cur - 1) PROVE Done(e)'
  BY <1>0, <1>1, DoneStays DEF Past, Events
<1>2. CASE cur' = cur
  BY <1>1, <1>2 DEF Past
<1>3. CASE cur' # cur
  <2>1. ReadAnswer(c)
    BY <1>3 DEF Hub, Handler, Open, Send, GivesUp, Read, Record, Discover, Apply, Forward, Answer,
       Write, Close, hub
  <2>2. /\ answers[c] # <<>> /\ Head(answers[c]).kind = "ACK" /\ Head(answers[c]).ev = cur
        /\ cur' = cur + 1
    BY <1>3, <2>1 DEF ReadAnswer, hub
  <2>3. answers[c] \in Seq(Replies)
    BY DEF Types
  <2>4. 1 \in DOMAIN answers[c] /\ Head(answers[c]) = answers[c][1] /\ answers[c][1] \in Replies
    BY <2>2, <2>3, TailFacts
  <2>5. Done(cur) /\ cur \in Events
    BY <2>2, <2>4, <1>0 DEF Deserved, Replies
  <2>6. PICK e \in Events : e = cur /\ Done(e)
    BY <2>5
  <2>7. Done(e)'
    BY <2>6, <1>0, DoneStays
  <2>8. cur' = e + 1
    BY <2>2, <2>6
  <2>9. ASSUME NEW x \in 1..(cur' - 1) PROVE Done(x)'
    <3>1. x = e \/ x \in 1..(cur - 1)
      BY <2>6, <2>8, <1>0
    <3> QED
      BY <3>1, <2>7, <1>1
  <2> QED
    BY <2>9 DEF Past
<1> QED
  BY <1>2, <1>3

LEMMA InvInit == Init => Inv
<1> SUFFICES ASSUME Init PROVE Inv
  OBVIOUS
<1>1. NotAhead
  BY DEF Init, NotAhead, Idle, Frame
<1>2. \A c \in Conns : Stage(c) /\ Deserved(c)
  BY DEF Init, Idle, Unsent, Stage, Deserved
<1>3. Past
  BY DEF Init, Past
<1> QED
  BY <1>1, <1>2, <1>3, TypesInit DEF Inv

LEMMA InvStep == Inv /\ [Next]_vars => Inv'
<1> SUFFICES ASSUME Inv, [Next]_vars PROVE Inv'
  OBVIOUS
<1>1. ASSUME NEW c \in Conns, Hub(c) \/ Handler(c) \/ Close(c) PROVE Inv'
  BY <1>1, TypesStep, NotAheadStep, StageStep, DeservedStep, PastStep DEF Inv
<1>2. CASE UNCHANGED vars
  <2>1. /\ UNCHANGED <<cur, wait, link, input, answers, th>>
        /\ UNCHANGED <<history, catalog, applied, up>>
    BY <1>2 DEF vars, hub, net, bridge
  <2>2. Types' /\ NotAhead'
    BY <2>1 DEF Inv, Types, NotAhead
  <2>3. \A e : Done(e) <=> Done(e)'
    BY <2>1 DEF Done, Kept, Applied, Received
  <2>4. Past'
    BY <2>1, <2>3 DEF Inv, Past
  <2>5. ASSUME NEW c \in Conns PROVE Stage(c)' /\ Deserved(c)'
    BY <2>1 DEF Inv, Stage, Deserved, Done, Kept, Applied, Received
  <2> QED
    BY <2>2, <2>4, <2>5 DEF Inv
<1> QED
  BY <1>1, <1>2 DEF Next

LEMMA Invariance == Spec => []Inv
BY InvInit, InvStep, PTL DEF Spec
-----------------------------------------------------------------------------
(* Order                                                                   *)

LEMMA OrderedAppend ==
    ASSUME NEW s \in Seq(Events), NEW e \in Events, Ordered(s),
           e > 1 => e - 1 \in ToSet(s)
    PROVE  Ordered(Append(s, e))
<1> DEFINE t == Append(s, e)
<1>1. /\ DOMAIN t = 1..(Len(s) + 1) /\ DOMAIN s = 1..Len(s) /\ Len(s) \in Nat
      /\ t[Len(s) + 1] = e /\ \A i \in DOMAIN s : t[i] = s[i]
  BY AppendFacts
<1>2. e > 1 => \E j \in 1..Len(s) : s[j] = e - 1
  BY <1>1 DEF ToSet
<1> HIDE DEF t
<1>3. ASSUME NEW i \in DOMAIN t, t[i] > 1 PROVE \E j \in 1..i : t[j] = t[i] - 1
  <2>1. CASE i \in DOMAIN s
    <3>1. PICK j \in 1..i : s[j] = s[i] - 1
      BY <2>1, <1>1, <1>3 DEF Ordered
    <3>2. j \in DOMAIN s
      BY <1>1, <2>1
    <3> QED
      BY <1>1, <2>1, <3>1, <3>2
  <2>2. CASE i \notin DOMAIN s
    <3>1. i = Len(s) + 1
      BY <1>1, <2>2
    <3>2. PICK j \in 1..Len(s) : s[j] = e - 1
      BY <1>1, <1>2, <1>3, <3>1
    <3> QED
      BY <1>1, <3>1, <3>2
  <2> QED
    BY <2>1, <2>2
<1> QED
  BY <1>3 DEF Ordered, t

\* Every event before the one a goroutine works on is acknowledged, so it is done.
LEMMA EarlierIsDone ==
    ASSUME Inv, NEW c \in Conns, th[c].frame.ev > 1
    PROVE  /\ th[c].frame.ev - 1 \in ToSet(applied)
           /\ RequireACK => \A g \in Targets : th[c].frame.ev - 1 \in ToSet(up[g])
<1>1. PICK e \in Events : e = th[c].frame.ev
  BY ThreadTypes DEF Inv, Types, Frames
<1>2. cur \in Nat /\ e <= cur
  BY <1>1, SomeEvents DEF Inv, Types, NotAhead
<1>3. e - 1 \in 1..(cur - 1)
  BY <1>1, <1>2, SomeEvents DEF Events
<1>4. Done(e - 1)
  BY <1>3 DEF Inv, Past
<1> QED
  BY <1>1, <1>4 DEF Done, Applied, Received

LEMMA OrderStep ==
    ASSUME Inv, FirstInOrder, NEW c \in Conns, Hub(c) \/ Handler(c) \/ Close(c)
    PROVE  FirstInOrder'
<1>0. th[c].frame.ev \in Events /\ applied \in Seq(Events) /\ up \in [Targets -> Seq(Events)]
  BY ThreadTypes DEF Inv, Types, Frames
<1>1. CASE Apply(c)
  <2>1. Ordered(applied')
    BY <1>0, <1>1, EarlierIsDone, OrderedAppend DEF Apply, FirstInOrder
  <2> QED
    BY <1>1, <2>1 DEF Apply, FirstInOrder
<1>2. ASSUME NEW g \in Targets, Forward(c, g) PROVE FirstInOrder'
  <2>1. Ordered(applied')
    BY <1>2 DEF Forward, bridge, FirstInOrder
  <2>2. up' = up \/ up' = [up EXCEPT ![g] = Append(@, th[c].frame.ev)]
    BY <1>2 DEF Forward
  <2>3. ASSUME RequireACK, NEW h \in Targets PROVE Ordered(up'[h])
    <3>1. up'[h] = up[h] \/ up'[h] = Append(up[h], th[c].frame.ev)
      BY <2>2, <1>0
    <3>2. up[h] \in Seq(Events) /\ Ordered(up[h])
      BY <1>0, <2>3 DEF FirstInOrder
    <3>3. Ordered(Append(up[h], th[c].frame.ev))
      BY <1>0, <2>3, <3>2, EarlierIsDone, OrderedAppend
    <3> QED
      BY <3>1, <3>2, <3>3
  <2> QED
    BY <2>1, <2>3 DEF FirstInOrder
<1>3. CASE applied' = applied /\ up' = up
  BY <1>3 DEF FirstInOrder
<1> QED
  BY <1>1, <1>2, <1>3 DEF Hub, Handler, Open, Send, ReadAnswer, GivesUp, Read, Record, Discover,
     Answer, Write, Close, bridge
-----------------------------------------------------------------------------
(* The abstract specification                                              *)

Step == Delivery!DeliveryNext \/ UNCHANGED Delivery!deliveryVars

LEMMA KeptIsRecorded == \A e : e \in KeptEvents <=> Kept(e)
BY DEF KeptEvents, Kept

\* A frame that is recorded adds its event to those kept, if it is sound.
LEMMA RecordKeeps ==
    ASSUME Inv, NEW c \in Conns, Record(c)
    PROVE  KeptEvents' = IF Sound(th[c].frame) THEN KeptEvents \cup {th[c].frame.ev} ELSE KeptEvents
<1> DEFINE f == th[c].frame
<1>1. f \in Frames /\ history \in Seq(Frames) /\ history' = Append(history, f)
  BY ThreadTypes DEF Inv, Types, Record
<1>2. /\ DOMAIN history' = 1..(Len(history) + 1) /\ DOMAIN history = 1..Len(history)
      /\ Len(history) \in Nat /\ history'[Len(history) + 1] = f
      /\ \A i \in DOMAIN history : i \in DOMAIN history' /\ history'[i] = history[i]
  BY <1>1, AppendFacts
<1> HIDE DEF f
<1>3. \A i \in DOMAIN history' : i \in DOMAIN history \/ i = Len(history) + 1
  BY <1>2
<1>4. Len(history) + 1 \in DOMAIN history'
  BY <1>2
<1>5. \A e : Kept(e)' <=> Kept(e) \/ (e = f.ev /\ Sound(f))
  BY <1>2, <1>3, <1>4 DEF Kept, Sound
<1>6. \A e : e \in KeptEvents' <=> Kept(e)'
  BY DEF KeptEvents, Kept
<1>7. CASE Sound(f)
  BY <1>5, <1>6, <1>7, KeptIsRecorded DEF f
<1>8. CASE ~Sound(f)
  BY <1>5, <1>6, <1>8, KeptIsRecorded DEF f
<1> QED
  BY <1>7, <1>8

\* Every step of a hub or a handler is one of AcknowledgedDelivery, or none.
LEMMA StepDelivers ==
    ASSUME Inv, NEW c \in Conns, Hub(c) \/ Handler(c) \/ Close(c)
    PROVE  Step
<1> DEFINE e == th[c].frame.ev
<1> USE DEF Inv
<1>0. e \in Events /\ cur \in Nat /\ e <= cur
  <2>1. th[c].frame \in Frames
    BY ThreadTypes DEF Types
  <2> QED
    BY <2>1, SomeEvents DEF Types, Frames, NotAhead
<1>1. e \in Delivery!Come
  BY <1>0, SomeEvents DEF Events, Delivery!Come
<1>2. ASSUME UNCHANGED <<cur, history, catalog, applied, up>> PROVE Step
  BY <1>2 DEF Step, Delivery!deliveryVars, KeptEvents
<1>3. CASE Open(c) \/ Send(c) \/ GivesUp(c)
  BY <1>2, <1>3 DEF Open, Send, GivesUp, hub, bridge
<1>4. CASE ReadAnswer(c)
  <2>1. CASE cur' = cur
    BY <1>2, <1>4, <2>1 DEF ReadAnswer, bridge
  <2>2. CASE cur' # cur
    <3>1. /\ answers[c] # <<>> /\ Head(answers[c]).kind = "ACK" /\ Head(answers[c]).ev = cur
          /\ cur' = cur + 1
      BY <1>4, <2>2 DEF ReadAnswer, hub
    <3>2. answers[c] \in Seq(Replies) /\ cur # 0
      BY DEF Types
    <3>3. 1 \in DOMAIN answers[c] /\ Head(answers[c]) = answers[c][1]
      BY <3>1, <3>2, TailFacts
    <3>4. Done(cur)
      BY <3>1, <3>2, <3>3 DEF Deserved
    <3>5. (cur - 1) + 1 = cur /\ cur' - 1 = (cur - 1) + 1
      BY <1>0, <3>1
    <3>6. UNCHANGED <<KeptEvents, catalog, applied, up>>
      BY <1>4 DEF ReadAnswer, bridge, KeptEvents
    <3>7. /\ (cur - 1) + 1 \in ToSet(applied)
          /\ RequireACK => \A g \in Targets : (cur - 1) + 1 \in ToSet(up[g])
      BY <3>4, <3>5 DEF Done, Applied, Received
    <3>8. Delivery!Acknowledge
      BY <3>5, <3>6, <3>7 DEF Delivery!Acknowledge, Delivery!ToSet, ToSet
    <3> QED
      BY <3>8 DEF Step, Delivery!DeliveryNext
  <2> QED
    BY <2>1, <2>2
<1>5. CASE Read(c) \/ Answer(c) \/ Write(c) \/ Close(c)
  BY <1>2, <1>5 DEF Read, Answer, Write, Close, hub, bridge
<1>6. CASE Record(c)
  <2>1. UNCHANGED <<cur, catalog, applied, up>>
    BY <1>6 DEF Record, hub
  <2>2. CASE Sound(th[c].frame)
    <3>1. KeptEvents' = KeptEvents \cup {e}
      BY <1>6, <2>2, RecordKeeps
    <3>2. Delivery!KeepInHistory(e)
      BY <2>1, <3>1 DEF Delivery!KeepInHistory
    <3> QED
      BY <1>1, <3>2 DEF Step, Delivery!DeliveryNext
  <2>3. CASE ~Sound(th[c].frame)
    <3>1. KeptEvents' = KeptEvents
      BY <1>6, <2>3, RecordKeeps
    <3> QED
      BY <2>1, <3>1 DEF Step, Delivery!deliveryVars
  <2> QED
    BY <2>2, <2>3
<1>7. CASE Discover(c)
  <2>1. e \in KeptEvents
    BY <1>7, KeptIsRecorded DEF Discover, Stage
  <2>2. Delivery!MakeKnown(e)
    BY <1>7, <2>1 DEF Discover, hub, KeptEvents, Delivery!MakeKnown
  <2> QED
    BY <1>1, <2>2 DEF Step, Delivery!DeliveryNext
<1>8. CASE Apply(c)
  <2>1. Delivery!Take(e)
    BY <1>8 DEF Apply, Stage, hub, KeptEvents, Delivery!Take
  <2> QED
    BY <1>1, <2>1 DEF Step, Delivery!DeliveryNext
<1>9. ASSUME NEW g \in Targets, Forward(c, g) PROVE Step
  <2>1. UNCHANGED <<cur, history, catalog, applied>> /\ e \in ToSet(applied)
    BY <1>9 DEF Forward, Stage, Applied, hub, bridge
  <2>2. CASE up' = up
    BY <1>2, <2>1, <2>2
  <2>3. CASE up' = [up EXCEPT ![g] = Append(@, e)]
    <3>1. UNCHANGED <<cur - 1, KeptEvents, catalog, applied>>
      BY <2>1 DEF KeptEvents
    <3> HIDE DEF e
    <3>2. Delivery!PassOn(g, e)
      BY <2>1, <2>3, <3>1 DEF Delivery!PassOn, Delivery!ToSet, ToSet
    <3> QED
      BY <1>1, <3>2 DEF Step, Delivery!DeliveryNext
  <2> QED
    BY <1>9, <2>2, <2>3 DEF Forward
<1> QED
  BY <1>3, <1>4, <1>5, <1>6, <1>7, <1>8, <1>9 DEF Hub, Handler
-----------------------------------------------------------------------------
(* Theorems                                                                *)

\* Whatever faults frames have and however receivers upstream fail, events stay
\* events, and nothing but the answers of response.go is ever written to a hub.
THEOREM IntakeTypes == Spec => []TypeOK
<1>1. Inv => TypeOK
  <2> SUFFICES ASSUME Types PROVE TypeOK
    BY DEF Inv
  <2>1. ASSUME NEW c \in Conns
        PROVE  /\ \A i \in DOMAIN input[c] : input[c][i] \in Frames
               /\ \A i \in DOMAIN answers[c] : answers[c][i] \in Replies
    <3>1. input[c] \in Seq(Frames) /\ answers[c] \in Seq(Replies)
      BY DEF Types
    <3> QED
      BY <3>1
  <2>2. \A c \in Conns : /\ th[c].kind \in Kinds \cup {"none"}
                         /\ th[c].got \in [Targets -> {"none", "ack", "failed"}]
    BY ThreadTypes DEF Types
  <2>3. \A i \in DOMAIN history : history[i] \in Frames
    <3>1. history \in Seq(Frames)
      BY DEF Types
    <3> QED
      BY <3>1
  <2> QED
    BY <2>1, <2>2, <2>3 DEF Types, TypeOK, Frames, Replies
<1> QED
  BY <1>1, Invariance, PTL

\* An event the hub has an acknowledgement for is in the history, the catalog and
\* the engine, and with RequireACK at every receiver upstream: for any number of
\* events, connections and receivers, and with late answers to repeated frames.
THEOREM AcknowledgedIsDone == Spec => []AckedIsDone
<1>1. Inv => AckedIsDone
  BY DEF Inv, Past, Done, Kept, Applied, Received, AckedIsDone
<1> QED
  BY <1>1, Invariance, PTL

\* The first time an event reaches the engine, or a receiver with RequireACK, all
\* earlier events have, although every connection has a goroutine of its own.
THEOREM EventsInOrder == Spec => []FirstInOrder
<1>1. Init => FirstInOrder
  BY DEF Init, FirstInOrder, Ordered
<1>2. FirstInOrder /\ Inv /\ [Next]_vars => FirstInOrder'
  <2> SUFFICES ASSUME FirstInOrder, Inv, [Next]_vars PROVE FirstInOrder'
    OBVIOUS
  <2>1. CASE UNCHANGED vars
    BY <2>1 DEF vars, bridge, FirstInOrder
  <2> QED
    BY <2>1, OrderStep DEF Next
<1> QED
  BY <1>1, <1>2, Invariance, PTL DEF Spec

\* The intake implements AcknowledgedDelivery: whatever frames are damaged,
\* repeated or late, and however receivers fail, every step of a handler is the
\* next thing to do with an event that has come, in the order of sia.md:10-20,
\* and the hub's step to its next event comes after all of them.
THEOREM IntakeDelivers == Spec => DeliverySpec
<1>1. Init => Delivery!DeliveryInit
  BY DEF Init, KeptEvents, Delivery!DeliveryInit
<1>2. Inv /\ [Next]_vars => [Delivery!DeliveryNext]_(Delivery!deliveryVars)
  <2> SUFFICES ASSUME Inv, [Next]_vars
               PROVE  [Delivery!DeliveryNext]_(Delivery!deliveryVars)
    OBVIOUS
  <2>1. CASE UNCHANGED vars
    BY <2>1 DEF vars, hub, bridge, KeptEvents, Delivery!deliveryVars
  <2>2. ASSUME NEW c \in Conns, Hub(c) \/ Handler(c) \/ Close(c)
        PROVE  [Delivery!DeliveryNext]_(Delivery!deliveryVars)
    BY <2>2, StepDelivers DEF Step
  <2> QED
    BY <2>1, <2>2 DEF Next
<1> QED
  BY <1>1, <1>2, Invariance, PTL DEF Spec, DeliverySpec, Delivery!DeliverySpec
=============================================================================
