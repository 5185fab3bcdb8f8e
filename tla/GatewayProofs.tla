---------------------------- MODULE GatewayProofs ----------------------------
(***************************************************************************)
(* The state of the gateway keeps its type, a pipeline that an error       *)
(* marked down is watched by a handler, and a client is streamed its       *)
(* answer across failures and replays: for any number of clients and       *)
(* replays, and for any answers of the upstream.                           *)
(***************************************************************************)
EXTENDS Gateway, FiniteSetTheorems, SequenceTheorems, TLAPS

-----------------------------------------------------------------------------
(* What the alignment of a replay with the text sent before returns. *)

\* Two texts have a longest common prefix: skip_already_sent always finds where
\* they part.  The prefixes are compared by what they leave of s.
LEMMA LongestExists ==
  ASSUME NEW s \in Seq(Letters), NEW t \in Seq(Letters)
  PROVE  /\ LongestCommonPrefix({s, t}) \in CommonPrefixes({s, t})
         /\ Len(LongestCommonPrefix({s, t})) \in 0..Len(s)
         /\ \A q \in CommonPrefixes({s, t}) : Len(q) <= Len(LongestCommonPrefix({s, t}))
<1> DEFINE C == CommonPrefixes({s, t})
           rest(p) == (Len(p) + 1)..Len(s)
           S == 1..Len(s)
           T == {rest(p) : p \in C}
<1>1. \A p \in C : Len(p) \in 0..Len(s)
  <2>1. SUFFICES ASSUME NEW p \in C PROVE Len(p) \in 0..Len(s)
    OBVIOUS
  <2>2. Len(p) <= Len(s)
    BY DEF CommonPrefixes, IsPrefix
  <2>3. Len(p) \in Nat
    <3>1. PICK u \in {s, t} : p \in Prefixes(u)
      BY DEF CommonPrefixes
    <3>2. PICK l \in 0..Len(u) : p = SubSeq(u, 1, l)
      BY <3>1 DEF Prefixes
    <3> QED BY <3>2, SubSeqProperties
  <2> QED BY <2>2, <2>3
<1>2. << >> \in C
  <2>1. << >> = SubSeq(s, 1, 0) /\ << >> = SubSeq(t, 1, 0)
    BY SubSeqEmpty
  <2>2. << >> \in Prefixes(s)
    BY <2>1 DEF Prefixes
  <2>3. IsPrefix(<< >>, s) /\ IsPrefix(<< >>, t)
    BY <2>1 DEF IsPrefix
  <2> QED BY <2>2, <2>3 DEF CommonPrefixes
<1>3. T # {} /\ T \subseteq FiniteSubsetsOf(S)
  <2>1. ASSUME NEW p \in C PROVE rest(p) \in FiniteSubsetsOf(S)
    <3>1. rest(p) \subseteq S /\ IsFiniteSet(rest(p))
      BY <1>1, FS_Interval
    <3> QED BY <3>1 DEF FiniteSubsetsOf
  <2> QED BY <1>2, <2>1
<1>4. PICK x \in T : \A y \in T : ~ (<<y, x>> \in StrictSubsetOrdering(S))
  <2> HIDE DEF T
  <2> QED BY <1>3, FS_StrictSubsetOrderingWellFounded, WFMin
<1>5. PICK p \in C : x = rest(p)
  OBVIOUS
<1>6. \A q \in C : Len(q) <= Len(p)
  <2> SUFFICES ASSUME NEW q \in C, ~ (Len(q) <= Len(p)) PROVE FALSE
    OBVIOUS
  <2>1. Len(p) \in Nat /\ Len(q) \in Nat /\ Len(s) \in Nat /\ Len(q) <= Len(s) /\ Len(p) < Len(q)
    <3> HIDE DEF C
    <3> QED BY <1>1
  <2>2. rest(q) \subseteq rest(p) /\ rest(p) \subseteq S
    BY <2>1
  <2>3. Len(p) + 1 \in rest(p) /\ Len(p) + 1 \notin rest(q)
    BY <2>1
  <2>4. <<rest(q), rest(p)>> \in StrictSubsetOrdering(S)
    BY <2>2, <2>3 DEF StrictSubsetOrdering
  <2> QED BY <1>4, <1>5, <2>4
<1>7. /\ LongestCommonPrefix({s, t}) \in C
      /\ \A q \in C : Len(q) <= Len(LongestCommonPrefix({s, t}))
  BY <1>5, <1>6 DEF LongestCommonPrefix
<1> QED BY <1>1, <1>7

\* What is new in a replay is a text.
LEMMA NewTextIsText ==
  ASSUME NEW text \in Seq(Letters), NEW already \in Seq(Letters)
  PROVE  SkipAlreadySent(text, already) \in Seq(Letters)
<1>1. Len(LongestCommonPrefix({text, already})) \in Nat
  BY LongestExists
<1> QED BY <1>1, SubSeqProperties DEF SkipAlreadySent

\* Every output of the upstream is a text.
LEMMA OutputsAreTexts ==
  ASSUME GatewayTypeOK, NEW c \in Streams, NEW out \in ReplayOutputs(c)
  PROVE  out[1] \in Replies /\ out[2] \in Seq(Letters)
<1> USE AnswersAssumption DEF Clients, GatewayTypeOK, Conns
<1>1. conn[c].sent \in Seq(Letters) /\ answer[c] \in Seq(Letters)
  OBVIOUS
<1>2. SubSeq(answer[c], Len(conn[c].sent) + 1, Len(answer[c])) \in Seq(Letters)
  BY <1>1, SubSeqProperties
<1>3. CASE out = <<"restarted", answer[c]>>
  BY <1>1, <1>3 DEF Replies
<1>4. CASE out = <<"continued", SubSeq(answer[c], Len(conn[c].sent) + 1, Len(answer[c]))>>
  BY <1>2, <1>4 DEF Replies
<1>5. CASE \E a \in Answers : out = <<"diverged", a>>
  BY <1>5 DEF Replies
<1> QED BY <1>3, <1>4, <1>5 DEF ReplayOutputs

-----------------------------------------------------------------------------
(* Type correctness: no client leaves the states of its handler *)

\* The gateway starts available, with no request under way.
LEMMA TypeInitially == GatewayInit => GatewayTypeOK
<1>1. NewConn \in Conns
  BY MaxReplaysAssumption DEF NewConn, Conns, Phases, Links, Replies
<1> QED BY <1>1, MaxOutagesAssumption DEF GatewayInit, GatewayTypeOK, Reasons

\* A handler that goes to a phase keeps a well-formed connection record.
LEMMA GotoKept ==
  ASSUME GatewayTypeOK, NEW c \in Clients, NEW phase \in Phases, Goto(c, phase)
  PROVE  conn' \in [Clients -> Conns]
<1> DEFINE k == [conn[c] EXCEPT !.phase = phase, !.link = "none"]
<1>1. k \in Conns
  BY DEF GatewayTypeOK, Conns, Links
<1>2. conn' = [conn EXCEPT ![c] = k]
  BY DEF Goto
<1> QED BY <1>1, <1>2 DEF GatewayTypeOK

\* Other updates of one connection record.
LEMMA RecordKept ==
  ASSUME GatewayTypeOK, NEW c \in Clients, NEW k \in Conns, conn' = [conn EXCEPT ![c] = k]
  PROVE  conn' \in [Clients -> Conns]
BY DEF GatewayTypeOK

\* No step leaves the types: neither an outage, nor the operator, nor a handler.
LEMMA TypeKept == GatewayInv /\ [GatewayNext]_gatewayVars => GatewayTypeOK'
<1> SUFFICES ASSUME GatewayInv, [GatewayNext]_gatewayVars PROVE GatewayTypeOK'
  OBVIOUS
<1>0. GatewayTypeOK
  BY DEF GatewayInv
<1>1. CASE UNCHANGED gatewayVars
  BY <1>0, <1>1 DEF gatewayVars, GatewayTypeOK
<1>2. CASE UpstreamDown
  <2>1. \A c \in Clients : [conn[c] EXCEPT !.link = "broken"] \in Conns
    BY <1>0 DEF GatewayTypeOK, Conns, Links
  <2>2. conn' \in [Clients -> Conns]
    BY <1>0, <1>2, <2>1 DEF UpstreamDown, GatewayTypeOK
  <2>3. outages' \in 0..MaxOutages
    BY <1>0, <1>2, MaxOutagesAssumption DEF UpstreamDown, GatewayTypeOK
  <2>4. available' \in BOOLEAN /\ up' \in BOOLEAN /\ reason' \in Reasons
        /\ answer' \in [Streams -> Answers]
    BY <1>0, <1>2 DEF UpstreamDown, GatewayTypeOK
  <2> QED BY <2>2, <2>3, <2>4 DEF GatewayTypeOK
<1>3. CASE UpstreamUp \/ Drain \/ Resume
  BY <1>0, <1>3 DEF UpstreamUp, Drain, Resume, MarkDown, MarkUp, GatewayTypeOK, Reasons
<1>4. ASSUME NEW c \in Clients, NEW phase \in Phases, Goto(c, phase),
             UNCHANGED <<up, outages, answer>>, available' \in BOOLEAN, reason' \in Reasons
      PROVE  GatewayTypeOK'
  BY <1>0, <1>4, GotoKept DEF GatewayTypeOK
<1>5. ASSUME NEW c \in Clients, Proxy(c) \/ Complete(c) \/ GiveUp(c) \/ Probe(c)
                                   \/ ProbeFails(c) \/ ReplayFails(c) \/ Disconnect(c)
      PROVE  GatewayTypeOK'
  <2>1. available' \in BOOLEAN /\ reason' \in Reasons /\ UNCHANGED <<up, outages, answer>>
    BY <1>0, <1>5 DEF Proxy, Complete, GiveUp, Probe, ProbeFails, ReplayFails, Disconnect,
                      GatewayTypeOK
  <2>2. \E phase \in Phases : Goto(c, phase)
    BY <1>5 DEF Proxy, Complete, GiveUp, Probe, ProbeFails, ReplayFails, Disconnect, Phases
  <2> QED BY <1>4, <2>1, <2>2
<1>6. ASSUME NEW c \in Clients, SeeAvailable(c) \/ ProbeAnswered(c)
      PROVE  GatewayTypeOK'
  BY <1>0, <1>4, <1>6 DEF SeeAvailable, ProbeAnswered, Resubmit, MarkUp, GatewayTypeOK, Phases, Reasons
<1>7. ASSUME NEW c \in Clients, NEW k \in Conns, conn' = [conn EXCEPT ![c] = k],
             UNCHANGED <<up, outages, answer>>, available' \in BOOLEAN, reason' \in Reasons
      PROVE  GatewayTypeOK'
  BY <1>0, <1>7, RecordKept DEF GatewayTypeOK
<1>8. ASSUME NEW c \in Clients, Connect(c)
      PROVE  GatewayTypeOK'
  <2> DEFINE k == [conn[c] EXCEPT !.link = "open"]
  <2>1. k \in Conns
    BY <1>0 DEF GatewayTypeOK, Conns, Links
  <2> QED BY <1>0, <1>7, <1>8, <2>1 DEF Connect, GatewayTypeOK
<1>9. ASSUME NEW c \in Clients, DeadlinePasses(c)
      PROVE  GatewayTypeOK'
  <2> DEFINE k == [conn[c] EXCEPT !.late = TRUE]
  <2>1. k \in Conns
    BY <1>0 DEF GatewayTypeOK, Conns
  <2> QED BY <1>0, <1>7, <1>9, <2>1 DEF DeadlinePasses, GatewayTypeOK
<1>10. ASSUME NEW c \in Clients, Chunk(c)
       PROVE  GatewayTypeOK'
  <2> DEFINE text == conn[c].sent
             longer == Append(text, answer[c][Len(text) + 1])
             k == [conn[c] EXCEPT !.sent = longer]
  <2>1. text \in Seq(Letters) /\ answer[c] \in Seq(Letters)
    BY <1>0, <1>10, AnswersAssumption DEF Chunk, GatewayTypeOK, Conns
  <2>2. answer[c][Len(text) + 1] \in Letters
    BY <1>0, <1>10, <2>1 DEF Chunk
  <2>3. k \in Conns
    <3>1. longer \in Seq(Letters)
      BY <2>1, <2>2
    <3> HIDE DEF longer
    <3> QED BY <1>0, <3>1 DEF GatewayTypeOK, Conns
  <2> QED BY <1>0, <1>7, <1>10, <2>3 DEF Chunk, GatewayTypeOK
<1>11. ASSUME NEW c \in Clients, CallFails(c)
       PROVE  GatewayTypeOK'
  <2> DEFINE next == IF conn[c].attempt + 1 > MaxReplays THEN "failed" ELSE "waiting"
             k == [conn[c] EXCEPT !.attempt = @ + 1, !.link = "none", !.late = FALSE,
                                  !.phase = next]
  <2>1. conn[c].attempt + 1 \in 0..(MaxReplays + 1)
    BY <1>0, <1>11, MaxReplaysAssumption DEF CallFails, GatewayInv, AttemptsLeft, Underway, GatewayTypeOK, Conns
  <2>2. k \in Conns
    BY <1>0, <2>1 DEF GatewayTypeOK, Conns, Links, Phases
  <2>3. conn' = [conn EXCEPT ![c] = k]
    BY <1>0, <1>11 DEF CallFails
  <2> QED BY <1>0, <1>7, <1>11, <2>2, <2>3 DEF CallFails, MarkDown, GatewayTypeOK, Reasons
<1>12. ASSUME NEW c \in Clients, Replay(c)
       PROVE  GatewayTypeOK'
  <2>1. c \in Streams
    BY <1>12 DEF Replay, GatewayInv, AttemptsLeft
  <2>2. PICK out \in ReplayOutputs(c) :
          conn' = [conn EXCEPT ![c].phase = "done", ![c].link = "none", ![c].reply = out[1],
                               ![c].sent = @ \o SkipAlreadySent(out[2], @)]
    BY <1>12 DEF Replay
  <2> DEFINE text == conn[c].sent \o SkipAlreadySent(out[2], conn[c].sent)
             k == [conn[c] EXCEPT !.phase = "done", !.link = "none", !.reply = out[1],
                                  !.sent = text]
  <2>3. text \in Seq(Letters) /\ out[1] \in Replies
    <3>1. conn[c].sent \in Seq(Letters)
      BY <1>0 DEF GatewayTypeOK, Conns
    <3>2. SkipAlreadySent(out[2], conn[c].sent) \in Seq(Letters) /\ out[1] \in Replies
      BY <1>0, <2>1, <3>1, OutputsAreTexts, NewTextIsText
    <3> QED BY <3>1, <3>2
  <2>4. k \in Conns
    <3> HIDE DEF text
    <3> QED BY <1>0, <2>3 DEF GatewayTypeOK, Conns, Links, Phases
  <2>5. conn' = [conn EXCEPT ![c] = k]
    BY <2>2
  <2> QED BY <1>0, <1>7, <1>12, <2>4, <2>5 DEF Replay, GatewayTypeOK
<1> QED BY <1>1, <1>2, <1>3, <1>5, <1>6, <1>8, <1>9, <1>10, <1>11, <1>12
        DEF GatewayNext, HandlerStep

-----------------------------------------------------------------------------
(* The inductive invariant *)

\* What every step leaves alone: the handlers that it does not belong to.
LEMMA OthersStay ==
  ASSUME GatewayTypeOK, GatewayTypeOK', NEW c \in Clients, NEW d \in Clients, d # c,
         HandlerStep(c) \/ Proxy(c) \/ DeadlinePasses(c) \/ Disconnect(c)
  PROVE  conn'[d] = conn[d]
BY DEF GatewayTypeOK, HandlerStep, Proxy, DeadlinePasses, Disconnect, Connect, Chunk, Complete,
       CallFails, GiveUp, SeeAvailable, Probe, ProbeAnswered, ProbeFails, Replay, ReplayFails,
       Resubmit, Goto

ClientStep(c) == HandlerStep(c) \/ Proxy(c) \/ DeadlinePasses(c) \/ Disconnect(c)

\* An outage and the operator leave phases and attempts as they are.
LEMMA EnvironmentStays ==
  ASSUME GatewayTypeOK, UpstreamDown \/ UpstreamUp \/ Drain \/ Resume \/ UNCHANGED gatewayVars,
         NEW c \in Clients
  PROVE  conn'[c].phase = conn[c].phase /\ conn'[c].attempt = conn[c].attempt
<1>1. CASE UpstreamDown
  <2>1. conn'[c] = IF conn[c].link = "open" THEN [conn[c] EXCEPT !.link = "broken"] ELSE conn[c]
    BY <1>1 DEF UpstreamDown
  <2> QED BY <2>1 DEF GatewayTypeOK, Conns
<1>2. CASE UpstreamUp \/ Drain \/ Resume \/ UNCHANGED gatewayVars
  BY <1>2 DEF UpstreamUp, Drain, Resume, gatewayVars
<1> QED BY <1>1, <1>2

\* A handler enters the wait only with an attempt left, and a replay only for a stream.
LEMMA AttemptsOfOneKept ==
  ASSUME GatewayInv, GatewayTypeOK', [GatewayNext]_gatewayVars, NEW d \in Clients
  PROVE  /\ conn'[d].phase \in Underway => conn'[d].attempt <= MaxReplays
         /\ conn'[d].phase = "replaying" => d \in Streams
<1>0. GatewayTypeOK
  BY DEF GatewayInv
<1>1. CASE UpstreamDown \/ UpstreamUp \/ Drain \/ Resume \/ UNCHANGED gatewayVars
  BY <1>0, <1>1, EnvironmentStays DEF GatewayInv, AttemptsLeft
<1>2. ASSUME NEW c \in Clients, ClientStep(c), c # d
      PROVE  conn'[d] = conn[d]
  BY <1>0, <1>2, OthersStay DEF ClientStep
<1>3. CASE ClientStep(d)
  <2>1. /\ conn[d].attempt \in Nat
        /\ conn[d].phase \in Underway => conn[d].attempt <= MaxReplays
        /\ conn[d].phase = "replaying" => d \in Streams
    BY <1>0 DEF GatewayInv, AttemptsLeft, GatewayTypeOK, Conns
  <2>2. CASE CallFails(d)
    BY <1>0, <2>1, <2>2, MaxReplaysAssumption DEF CallFails, GatewayTypeOK, Conns, Underway
  <2>3. CASE Connect(d) \/ Chunk(d) \/ DeadlinePasses(d)
    <3>1. conn'[d].phase = conn[d].phase /\ conn'[d].attempt = conn[d].attempt
      <4>1. CASE Connect(d)
        BY <1>0, <4>1 DEF Connect, GatewayTypeOK, Conns
      <4>2. CASE Chunk(d)
        <5>1. PICK text : conn' = [conn EXCEPT ![d].sent = text]
          BY <4>2 DEF Chunk
        <5> QED BY <1>0, <5>1 DEF GatewayTypeOK, Conns
      <4>3. CASE DeadlinePasses(d)
        BY <1>0, <4>3 DEF DeadlinePasses, GatewayTypeOK, Conns
      <4> QED BY <2>3, <4>1, <4>2, <4>3
    <3> QED BY <2>1, <3>1
  <2>4. ASSUME NEW phase \in Phases, Goto(d, phase)
        PROVE  conn'[d].phase = phase /\ conn'[d].attempt = conn[d].attempt
    BY <1>0, <2>4 DEF Goto, GatewayTypeOK, Conns
  <2>5. CASE Complete(d) \/ GiveUp(d) \/ ReplayFails(d) \/ Disconnect(d)
    <3>1. PICK phase \in Phases \ Underway : Goto(d, phase)
      BY <2>5 DEF Complete, GiveUp, ReplayFails, Disconnect, Phases, Underway
    <3> QED BY <2>4, <3>1 DEF Underway
  <2>6. CASE Replay(d)
    <3>1. PICK out \in ReplayOutputs(d) :
            conn' = [conn EXCEPT ![d].phase = "done", ![d].link = "none", ![d].reply = out[1],
                                 ![d].sent = @ \o SkipAlreadySent(out[2], @)]
      BY <2>6 DEF Replay
    <3>2. conn'[d].phase = "done"
      BY <1>0, <3>1 DEF GatewayTypeOK, Conns
    <3> QED BY <3>2 DEF Underway
  <2>7. CASE Proxy(d) \/ Probe(d) \/ ProbeFails(d) \/ SeeAvailable(d) \/ ProbeAnswered(d)
    <3>1. PICK phase \in Phases : Goto(d, phase) /\ (phase = "replaying" => d \in Streams)
      BY <2>7 DEF Proxy, Probe, ProbeFails, SeeAvailable, ProbeAnswered, Resubmit, Phases
    <3>2. conn[d].phase \in Underway
      BY <2>7 DEF Proxy, Probe, ProbeFails, SeeAvailable, ProbeAnswered, Underway
    <3> QED BY <2>1, <2>4, <3>1, <3>2
  <2> QED BY <1>3, <2>2, <2>3, <2>5, <2>6, <2>7 DEF ClientStep, HandlerStep
<1>4. CASE \E c \in Clients : ClientStep(c)
  <2>1. CASE ClientStep(d)
    BY <1>3, <2>1
  <2>2. CASE ~ ClientStep(d)
    BY <1>2, <1>4, <2>2 DEF GatewayInv, AttemptsLeft
  <2> QED BY <2>1, <2>2
<1> QED BY <1>1, <1>4 DEF GatewayNext, ClientStep

\* The same for all handlers at once.
LEMMA AttemptsKept ==
  ASSUME GatewayInv, GatewayTypeOK', [GatewayNext]_gatewayVars
  PROVE  AttemptsLeft'
BY AttemptsOfOneKept DEF AttemptsLeft, Underway

\* Whoever marks the pipeline down waits for it or has given up, and no waiter leaves
\* before it is up again without giving up.
LEMMA WatchKept ==
  ASSUME GatewayInv, GatewayTypeOK', [GatewayNext]_gatewayVars
  PROVE  DownIsWatched'
<1> DEFINE Watchers == {"waiting", "probing", "failed", "gone"}
<1> SUFFICES ASSUME ~ available', reason' = "error"
             PROVE  \E c \in Clients : conn'[c].phase \in Watchers
  BY DEF DownIsWatched
<1>0. GatewayTypeOK /\ DownIsWatched
  BY DEF GatewayInv
<1>1. CASE UpstreamDown \/ UpstreamUp \/ Drain \/ Resume \/ UNCHANGED gatewayVars
  <2>1. ~ available /\ reason = "error"
    BY <1>1 DEF UpstreamDown, UpstreamUp, Drain, Resume, MarkDown, MarkUp, gatewayVars
  <2>2. PICK c \in Clients : conn[c].phase \in Watchers
    BY <1>0, <2>1 DEF DownIsWatched
  <2> QED BY <1>0, <1>1, <2>2, EnvironmentStays
<1>2. ASSUME NEW c \in Clients, CallFails(c)
      PROVE  conn'[c].phase \in Watchers
  BY <1>0, <1>2 DEF CallFails, GatewayTypeOK, Conns
<1>3. ASSUME NEW c \in Clients, ClientStep(c), ~ CallFails(c)
      PROVE  \E d \in Clients : conn'[d].phase \in Watchers
  <2>1. ~ available /\ reason = "error" /\ ~ ProbeAnswered(c) /\ ~ SeeAvailable(c)
    <3>1. ~ ProbeAnswered(c)
      BY DEF ProbeAnswered, MarkUp
    <3>2. UNCHANGED <<available, reason>>
      BY <1>3, <3>1 DEF ClientStep, HandlerStep, Connect, Chunk, Complete, GiveUp, SeeAvailable,
                        Probe, ProbeFails, Replay, ReplayFails, Proxy, DeadlinePasses, Disconnect
    <3> QED BY <3>1, <3>2 DEF SeeAvailable
  <2>2. PICK d \in Clients : conn[d].phase \in Watchers
    BY <1>0, <2>1 DEF DownIsWatched
  <2>3. CASE d # c
    BY <1>0, <1>3, <2>2, <2>3, OthersStay DEF ClientStep
  <2>4. CASE d = c
    <3>1. CASE DeadlinePasses(c)
      BY <1>0, <2>2, <2>4, <3>1 DEF DeadlinePasses, GatewayTypeOK, Conns
    <3>2. CASE GiveUp(c) \/ Probe(c) \/ ProbeFails(c) \/ Disconnect(c)
      BY <1>0, <2>2, <2>4, <3>2 DEF GiveUp, Probe, ProbeFails, Disconnect, Goto, GatewayTypeOK, Conns
    <3>3. ~ Connect(c) /\ ~ Chunk(c) /\ ~ Complete(c) /\ ~ Replay(c) /\ ~ ReplayFails(c) /\ ~ Proxy(c)
      BY <2>2, <2>4 DEF Connect, Chunk, Complete, Replay, ReplayFails, Proxy
    <3> QED BY <1>3, <2>1, <3>1, <3>2, <3>3 DEF ClientStep, HandlerStep
  <2> QED BY <2>3, <2>4
<1>4. CASE \E c \in Clients : ClientStep(c)
  BY <1>2, <1>3, <1>4
<1> QED BY <1>1, <1>4 DEF GatewayNext, ClientStep

\* The invariant of the gateway, of any number of clients that fail, wait, probe
\* and are replayed in any order.
THEOREM GatewayInductive == GatewaySpec => []GatewayInv
<1>1. GatewayInit => GatewayInv
  <2> SUFFICES ASSUME GatewayInit PROVE GatewayInv
    OBVIOUS
  <2>1. \A c \in Clients : conn[c].phase = "new" /\ conn[c].attempt = 0
    BY DEF GatewayInit, NewConn
  <2>2. DownIsWatched
    BY DEF GatewayInit, DownIsWatched
  <2> QED BY <2>1, <2>2, TypeInitially, MaxReplaysAssumption DEF GatewayInv, AttemptsLeft
<1>2. GatewayInv /\ [GatewayNext]_gatewayVars => GatewayInv'
  <2> SUFFICES ASSUME GatewayInv, [GatewayNext]_gatewayVars PROVE GatewayInv'
    OBVIOUS
  <2>1. GatewayTypeOK'
    BY TypeKept
  <2>2. DownIsWatched'
    BY <2>1, WatchKept
  <2>3. AttemptsLeft'
    BY <2>1, AttemptsKept
  <2> QED BY <2>1, <2>2, <2>3 DEF GatewayInv
<1> QED BY <1>1, <1>2, PTL DEF GatewaySpec

\* The types hold for any answers and outputs of the upstream.
THEOREM GatewayTypeCorrect == GatewaySpec => []GatewayTypeOK
<1>1. GatewayInv => GatewayTypeOK
  BY DEF GatewayInv
<1> QED BY <1>1, GatewayInductive, PTL

\* A pipeline that an error marked down has a handler that probes it, or one that
\* gave up on it.
THEOREM DownAlwaysWatched == GatewaySpec => []DownIsWatched
<1>1. GatewayInv => DownIsWatched
  BY DEF GatewayInv
<1> QED BY <1>1, GatewayInductive, PTL

-----------------------------------------------------------------------------
(* What the client of a stream has been sent *)

\* A prefix, by its elements.
LEMMA PrefixElements ==
  ASSUME NEW s \in Seq(Letters), NEW t \in Seq(Letters)
  PROVE  IsPrefix(s, t) <=> Len(s) <= Len(t) /\ \A i \in 1..Len(s) : s[i] = t[i]
<1> DEFINE n == Len(s)
           s1 == SubSeq(s, 1, n)
           t1 == SubSeq(t, 1, n)
<1>1. n \in Nat /\ Len(t) \in Nat
  OBVIOUS
<1>2. ASSUME n <= Len(t) PROVE s1 = t1 <=> \A i \in 1..n : s[i] = t[i]
  <2>1. /\ s1 \in Seq(Letters) /\ Len(s1) = n /\ \A i \in 1..n : s1[i] = s[i]
        /\ t1 \in Seq(Letters) /\ Len(t1) = n /\ \A i \in 1..n : t1[i] = t[i]
    <3>1. (\A i \in 1..n : s[i] \in Letters) /\ (\A i \in 1..n : t[i] \in Letters)
      BY <1>1, <1>2
    <3> HIDE DEF n
    <3>2. /\ s1 \in Seq(Letters) /\ Len(s1) = n
          /\ \A i \in 1..(n - 1 + 1) : s1[i] = s[1 + i - 1]
      BY <1>1, <3>1, SubSeqProperties
    <3>3. /\ t1 \in Seq(Letters) /\ Len(t1) = n
          /\ \A i \in 1..(n - 1 + 1) : t1[i] = t[1 + i - 1]
      BY <1>1, <3>1, SubSeqProperties
    <3> HIDE DEF s1, t1
    <3> QED BY <1>1, <3>2, <3>3
  <2> HIDE DEF s1, t1, n
  <2> QED BY <1>1, <2>1, SeqEqual
<1> QED BY <1>2 DEF IsPrefix

\* A text and the rest of the one that it is a prefix of.
LEMMA PrefixAndRest ==
  ASSUME NEW s \in Seq(Letters), NEW t \in Seq(Letters), IsPrefix(s, t)
  PROVE  s = SubSeq(t, 1, Len(s)) /\ s \o SubSeq(t, Len(s) + 1, Len(t)) = t
<1>1. Len(s) <= Len(t) /\ Len(s) \in Nat /\ Len(t) \in Nat
  BY DEF IsPrefix
<1>2. s = SubSeq(t, 1, Len(s))
  <2>1. SubSeq(s, 1, Len(s)) = s
    BY SubSeqFull
  <2> QED BY <2>1 DEF IsPrefix
<1>3. SubSeq(t, 1, Len(s)) \o SubSeq(t, Len(s) + 1, Len(t)) = SubSeq(t, 1, Len(t))
  <2>1. 1 \in 1..(Len(t) + 1) /\ Len(s) \in (1 - 1)..Len(t) /\ Len(t) \in Len(s)..Len(t)
    BY <1>1
  <2> QED BY <2>1, ConcatAdjacentSubSeq
<1>4. SubSeq(t, 1, Len(t)) = t
  BY SubSeqFull
<1> QED BY <1>2, <1>3, <1>4

\* A replay that starts the answer again sends what the client does not have yet.
LEMMA RestartCompletes ==
  ASSUME NEW s \in Seq(Letters), NEW t \in Seq(Letters), IsPrefix(s, t)
  PROVE  s \o SkipAlreadySent(t, s) = t
<1> DEFINE p == LongestCommonPrefix({t, s})
<1>1. s \in CommonPrefixes({t, s})
  <2>1. s \in Prefixes(s) /\ IsPrefix(s, s)
    <3>1. SubSeq(s, 1, Len(s)) = s /\ Len(s) \in 0..Len(s) /\ Len(s) <= Len(s)
      BY SubSeqFull
    <3> QED BY <3>1 DEF Prefixes, IsPrefix
  <2> QED BY <2>1 DEF CommonPrefixes
<1>2. Len(s) <= Len(p) /\ p \in CommonPrefixes({t, s}) /\ Len(p) \in Nat
  BY <1>1, LongestExists
<1>3. Len(p) <= Len(s)
  BY <1>2 DEF CommonPrefixes, IsPrefix
<1>4. Len(p) = Len(s)
  BY <1>2, <1>3
<1> QED BY <1>4, PrefixAndRest DEF SkipAlreadySent

\* One that continues the answer may lose what looks like text sent before.
LEMMA ContinuationHasOneGap ==
  ASSUME NEW s \in Seq(Letters), NEW t \in Seq(Letters), IsPrefix(s, t)
  PROVE  HasOneGap(s \o SkipAlreadySent(SubSeq(t, Len(s) + 1, Len(t)), s), t)
<1> DEFINE i == Len(s)
           n == Len(t)
           rest == SubSeq(t, i + 1, n)
           k == Len(LongestCommonPrefix({rest, s}))
           new == SubSeq(rest, k + 1, Len(rest))
           tail == SubSeq(t, i + k + 1, n)
<1>1. i \in Nat /\ n \in Nat /\ i <= n
  BY DEF IsPrefix
<1>2. /\ rest \in Seq(Letters) /\ Len(rest) = n - i
      /\ \A x \in 1..(n - i) : rest[x] = t[i + x]
  <2>1. \A x \in (i + 1)..n : t[x] \in Letters
    BY <1>1
  <2>2. i + 1 \in Int /\ n \in Int
    BY <1>1
  <2> HIDE DEF i, n
  <2>3. /\ rest \in Seq(Letters) /\ Len(rest) = (IF i + 1 <= n THEN n - (i + 1) + 1 ELSE 0)
        /\ \A x \in 1..(n - (i + 1) + 1) : rest[x] = t[i + 1 + x - 1]
    BY <2>1, <2>2, SubSeqProperties
  <2> HIDE DEF rest
  <2> QED BY <1>1, <2>3
<1>3. k \in 0..(n - i)
  BY <1>2, LongestExists
<1>4. new = tail
  <2> HIDE DEF rest, k, i, n
  <2>1. \A x \in (k + 1)..Len(rest) : rest[x] \in Letters
    BY <1>1, <1>2, <1>3
  <2>2. /\ new \in Seq(Letters)
        /\ Len(new) = (IF k + 1 <= Len(rest) THEN Len(rest) - (k + 1) + 1 ELSE 0)
        /\ \A x \in 1..(Len(rest) - (k + 1) + 1) : new[x] = rest[k + 1 + x - 1]
    <3>1. k + 1 \in Int /\ Len(rest) \in Int
      BY <1>1, <1>2, <1>3
    <3> QED BY <2>1, <3>1, SubSeqProperties
  <2>3. /\ tail \in Seq(Letters)
        /\ Len(tail) = (IF i + k + 1 <= n THEN n - (i + k + 1) + 1 ELSE 0)
        /\ \A x \in 1..(n - (i + k + 1) + 1) : tail[x] = t[i + k + 1 + x - 1]
    <3>1. i + k + 1 \in Int /\ n \in Int /\ \A x \in (i + k + 1)..n : t[x] \in Letters
      BY <1>1, <1>3 DEF n
    <3> QED BY <3>1, SubSeqProperties
  <2> HIDE DEF new, tail
  <2>4. Len(new) = Len(tail) /\ Len(new) = n - i - k
    BY <1>1, <1>2, <1>3, <2>2, <2>3
  <2>5. ASSUME NEW x \in 1..Len(new) PROVE new[x] = tail[x]
    <3>1. new[x] = rest[k + x] /\ tail[x] = t[i + k + x] /\ k + x \in 1..(n - i)
      BY <1>1, <1>2, <1>3, <2>2, <2>3, <2>4
    <3>2. rest[k + x] = t[i + (k + x)] /\ i + (k + x) = i + k + x
      BY <1>1, <1>2, <1>3, <3>1
    <3> QED BY <3>1, <3>2
  <2> QED BY <2>2, <2>3, <2>4, <2>5, SeqEqual
<1>5. s = SubSeq(t, 1, i)
  BY PrefixAndRest
<1>6. i \in 0..n /\ i + k \in 0..n /\ i <= i + k
  <2> HIDE DEF k, i, n
  <2> QED BY <1>1, <1>3
<1>7. SkipAlreadySent(rest, s) = new
  BY DEF SkipAlreadySent
<1>8. \E a, b \in 0..n : a <= b /\ s \o tail = SubSeq(t, 1, a) \o SubSeq(t, b + 1, n)
  <2> HIDE DEF k, i, n
  <2> QED BY <1>5, <1>6 DEF tail
<1>9. s \o SkipAlreadySent(rest, s) = s \o tail
  BY <1>4, <1>7
<1> QED BY <1>8, <1>9 DEF HasOneGap

\* A stream that was replayed has ended: nothing is sent after a replay.
ReplayedOnce == \A c \in Streams : conn[c].reply # "none" => conn[c].phase = "done"

StreamInv == GatewayInv /\ ReplayedOnce /\ StreamsAreFaithful

\* What one client of a stream may have been sent.
Faithful(d) ==
  LET k == conn[d] IN
  /\ k.reply # "none" => k.phase = "done"
  /\ k.reply \in {"none", "restarted"} =>
       IsPrefix(k.sent, answer[d]) /\ (k.phase = "done" => k.sent = answer[d])
  /\ k.reply = "continued" => HasOneGap(k.sent, answer[d])

\* Every step of another handler, of the operator or of the upstream leaves what
\* the client was sent, and so does every step of its own that sends nothing and
\* does not complete the stream.
LEMMA StillFaithful ==
  ASSUME NEW d \in Streams, Faithful(d), answer'[d] = answer[d],
         conn'[d].sent = conn[d].sent, conn'[d].reply = conn[d].reply,
         conn'[d].phase = conn[d].phase
           \/ (conn[d].phase # "done" /\ (conn'[d].phase = "done" => conn[d].sent = answer[d]))
  PROVE  Faithful(d)'
BY DEF Faithful

\* The stream of one client is faithful after its own step.
LEMMA FaithfulStep ==
  ASSUME StreamInv, NEW d \in Streams, Faithful(d), ClientStep(d)
  PROVE  Faithful(d)'
<1>0. /\ GatewayTypeOK
      /\ d \in Clients /\ conn[d] \in Conns /\ answer[d] \in Seq(Letters) /\ answer \in [Streams -> Answers]
      /\ conn[d].sent \in Seq(Letters)
  BY AnswersAssumption DEF StreamInv, GatewayInv, GatewayTypeOK, Clients, Conns
<1>1. answer' = answer
  BY DEF ClientStep, HandlerStep, Connect, Chunk, Complete, CallFails, GiveUp, SeeAvailable,
         Probe, ProbeAnswered, ProbeFails, Replay, ReplayFails, Proxy, DeadlinePasses, Disconnect
<1>2. CASE Chunk(d)
  <2> DEFINE n == Len(conn[d].sent)
             longer == Append(conn[d].sent, answer[d][n + 1])
  <2>1. /\ conn[d].phase = "calling" /\ conn[d].reply = "none" /\ n < Len(answer[d])
        /\ conn' = [conn EXCEPT ![d].sent = longer]
    BY <1>2 DEF Chunk, Faithful
  <2>2. conn'[d].phase = "calling" /\ conn'[d].reply = "none" /\ conn'[d].sent = longer
    <3> HIDE DEF longer
    <3> QED BY <1>0, <2>1 DEF GatewayTypeOK, Conns
  <2>3. IsPrefix(longer, answer[d])
    <3>1. n <= Len(answer[d]) /\ \A i \in 1..n : conn[d].sent[i] = answer[d][i]
      BY <1>0, <2>1, PrefixElements DEF Faithful
    <3>2. answer[d][n + 1] \in Letters
      BY <1>0, <2>1
    <3>3. longer \in Seq(Letters) /\ Len(longer) = n + 1
      BY <1>0, <3>2
    <3>4. ASSUME NEW i \in 1..(n + 1) PROVE longer[i] = answer[d][i]
      <4>1. CASE i \in 1..n
        BY <1>0, <3>1, <3>2, <4>1
      <4>2. CASE i = n + 1
        BY <1>0, <3>2, <4>2
      <4> QED BY <1>0, <4>1, <4>2
    <3>5. Len(longer) <= Len(answer[d])
      BY <1>0, <2>1, <3>3
    <3> HIDE DEF longer
    <3> QED BY <1>0, <3>3, <3>4, <3>5, PrefixElements
  <2> HIDE DEF longer
  <2> QED BY <1>1, <2>2, <2>3 DEF Faithful
<1>3. CASE Replay(d)
  <2>1. conn[d].reply = "none" /\ IsPrefix(conn[d].sent, answer[d])
    BY <1>3 DEF Replay, Faithful
  <2>2. PICK out \in ReplayOutputs(d) :
          conn' = [conn EXCEPT ![d].phase = "done", ![d].link = "none", ![d].reply = out[1],
                               ![d].sent = @ \o SkipAlreadySent(out[2], @)]
    BY <1>3 DEF Replay
  <2> DEFINE text == conn[d].sent \o SkipAlreadySent(out[2], conn[d].sent)
  <2>3. conn'[d].phase = "done" /\ conn'[d].reply = out[1] /\ conn'[d].sent = text
    BY <1>0, <2>2 DEF GatewayTypeOK, Conns
  <2>4. CASE out = <<"restarted", answer[d]>>
    <3>1. text = answer[d]
      BY <1>0, <2>1, <2>4, RestartCompletes
    <3>2. IsPrefix(answer[d], answer[d])
      BY <1>0, PrefixElements
    <3> QED BY <1>1, <2>3, <2>4, <3>1, <3>2 DEF Faithful
  <2>5. CASE out = <<"continued", SubSeq(answer[d], Len(conn[d].sent) + 1, Len(answer[d]))>>
    <3>1. HasOneGap(text, answer[d])
      BY <1>0, <2>1, <2>5, ContinuationHasOneGap
    <3> HIDE DEF text
    <3> QED BY <1>1, <2>3, <2>5, <3>1 DEF Faithful
  <2>6. CASE \E a \in Answers : out = <<"diverged", a>>
    <3>1. out[1] = "diverged"
      BY <2>6
    <3> HIDE DEF text
    <3> QED BY <2>3, <3>1 DEF Faithful
  <2>7. out \in {<<"restarted", answer[d]>>,
                <<"continued", SubSeq(answer[d], Len(conn[d].sent) + 1, Len(answer[d]))>>}
        \/ \E a \in Answers : out = <<"diverged", a>>
    BY <2>2 DEF ReplayOutputs
  <2> HIDE DEF text
  <2> QED BY <2>4, <2>5, <2>6, <2>7
<1>4. ASSUME NEW phase \in Phases, Goto(d, phase)
      PROVE  conn'[d].phase = phase /\ conn'[d].sent = conn[d].sent /\ conn'[d].reply = conn[d].reply
  BY <1>0, <1>4 DEF Goto, GatewayTypeOK, Conns
<1>5. CASE Complete(d)
  BY <1>1, <1>4, <1>5, StillFaithful DEF Complete, Phases
<1>6. CASE Connect(d) \/ DeadlinePasses(d)
  BY <1>0, <1>1, <1>6, StillFaithful DEF Connect, DeadlinePasses, GatewayTypeOK, Conns
<1>7. CASE CallFails(d)
  <2>1. /\ conn[d].phase = "calling" /\ conn'[d].phase \in {"failed", "waiting"}
        /\ conn'[d].sent = conn[d].sent /\ conn'[d].reply = conn[d].reply
    BY <1>0, <1>7 DEF CallFails, GatewayTypeOK, Conns
  <2> QED BY <1>1, <2>1, StillFaithful
<1>8. CASE GiveUp(d) \/ ReplayFails(d) \/ Disconnect(d) \/ Proxy(d) \/ Probe(d) \/ ProbeFails(d)
             \/ SeeAvailable(d) \/ ProbeAnswered(d)
  <2>1. PICK phase \in Phases \ {"done"} : Goto(d, phase)
    BY <1>8 DEF GiveUp, ReplayFails, Disconnect, Proxy, Probe, ProbeFails, SeeAvailable,
                ProbeAnswered, Resubmit, Phases
  <2>2. conn[d].phase # "done"
    BY <1>8 DEF GiveUp, ReplayFails, Disconnect, Proxy, Probe, ProbeFails, SeeAvailable, ProbeAnswered
  <2> QED BY <1>1, <1>4, <2>1, <2>2, StillFaithful
<1> QED BY <1>2, <1>3, <1>5, <1>6, <1>7, <1>8 DEF ClientStep, HandlerStep

\* An outage breaks connections and nothing else: what was sent is not taken back.
LEMMA FaithfulAround ==
  ASSUME StreamInv, NEW d \in Streams, Faithful(d),
         UpstreamDown \/ UpstreamUp \/ Drain \/ Resume \/ UNCHANGED gatewayVars
  PROVE  Faithful(d)'
<1>0. GatewayTypeOK /\ d \in Clients
  BY DEF StreamInv, GatewayInv, Clients
<1>1. answer' = answer
  BY DEF UpstreamDown, UpstreamUp, Drain, Resume, gatewayVars
<1>2. /\ conn'[d].sent = conn[d].sent /\ conn'[d].reply = conn[d].reply
      /\ conn'[d].phase = conn[d].phase
  <2>1. CASE UpstreamDown
    <3>1. conn'[d] = IF conn[d].link = "open" THEN [conn[d] EXCEPT !.link = "broken"] ELSE conn[d]
      BY <1>0, <2>1 DEF UpstreamDown
    <3> QED BY <1>0, <3>1 DEF GatewayTypeOK, Conns
  <2>2. CASE UpstreamUp \/ Drain \/ Resume \/ UNCHANGED gatewayVars
    BY <2>2 DEF UpstreamUp, Drain, Resume, gatewayVars
  <2> QED BY <2>1, <2>2
<1> QED BY <1>1, <1>2, StillFaithful

\* The streams of all clients at once.
LEMMA FaithfulByClient == ReplayedOnce /\ StreamsAreFaithful <=> \A d \in Streams : Faithful(d)
BY DEF ReplayedOnce, StreamsAreFaithful, Faithful

\* The same after a step.
LEMMA FaithfulByClientNext ==
  (ReplayedOnce /\ StreamsAreFaithful)' <=> \A d \in Streams : Faithful(d)'
BY DEF ReplayedOnce, StreamsAreFaithful, Faithful

\* What the client of a stream has been sent is at any time a prefix of the answer,
\* and all of it in the end, however often calls fail, time out and are replayed from
\* the beginning; a replay that continues the answer leaves at most one gap.
THEOREM StreamsAlwaysFaithful == GatewaySpec => []StreamsAreFaithful
<1>1. GatewayInit => ReplayedOnce /\ StreamsAreFaithful
  <2> SUFFICES ASSUME GatewayInit, NEW d \in Streams PROVE Faithful(d)
    BY FaithfulByClient
  <2>1. conn[d] = NewConn /\ answer[d] \in Seq(Letters)
    BY AnswersAssumption DEF GatewayInit, Clients
  <2>3. IsPrefix(<< >>, answer[d])
    <3>1. Len(<< >>) = 0 /\ Len(answer[d]) \in Nat
      BY <2>1
    <3>2. << >> = SubSeq(<< >>, 1, 0) /\ << >> = SubSeq(answer[d], 1, 0)
      BY SubSeqEmpty
    <3> QED BY <3>1, <3>2 DEF IsPrefix
  <2> QED BY <2>1, <2>3 DEF Faithful, NewConn
<1>2. StreamInv /\ GatewayInv' /\ [GatewayNext]_gatewayVars => (ReplayedOnce /\ StreamsAreFaithful)'
  <2> SUFFICES ASSUME StreamInv, GatewayInv', [GatewayNext]_gatewayVars, NEW d \in Streams
               PROVE  Faithful(d)'
    BY FaithfulByClientNext
  <2>1. Faithful(d) /\ d \in Clients /\ GatewayTypeOK /\ GatewayTypeOK'
    BY FaithfulByClient DEF StreamInv, GatewayInv, Clients
  <2>2. CASE UpstreamDown \/ UpstreamUp \/ Drain \/ Resume \/ UNCHANGED gatewayVars
    BY <2>1, <2>2, FaithfulAround
  <2>3. CASE ClientStep(d)
    BY <2>1, <2>3, FaithfulStep
  <2>4. ASSUME NEW c \in Clients, ClientStep(c), c # d
        PROVE  Faithful(d)'
    <3>1. conn'[d] = conn[d]
      BY <2>1, <2>4, OthersStay DEF ClientStep
    <3>2. answer' = answer
      BY <2>4 DEF ClientStep, HandlerStep, Connect, Chunk, Complete, CallFails, GiveUp,
                  SeeAvailable, Probe, ProbeAnswered, ProbeFails, Replay, ReplayFails, Proxy,
                  DeadlinePasses, Disconnect
    <3> QED BY <2>1, <3>1, <3>2, StillFaithful
  <2> QED BY <2>2, <2>3, <2>4 DEF GatewayNext, ClientStep
<1> QED BY <1>1, <1>2, GatewayInductive, PTL DEF GatewaySpec, StreamInv
=============================================================================
