------------------------------- MODULE Gateway -------------------------------
(***************************************************************************)
(* The entry gateway in front of vLLM (gateway/vllm_gateway.py): it admits *)
(* requests while the pipeline is available, marks it down when a call to  *)
(* the upstream fails, keeps the client's connection open, waits for a     *)
(* resume by hand or for the upstream to answer a probe, and submits the   *)
(* request again.  A stream is replayed with the text sent so far appended *)
(* to its prompt, and only what is new is to reach the client.             *)
(*                                                                         *)
(* The gateway is one asyncio process: the handlers of the clients         *)
(* interleave at their awaits.  A letter stands for the text of one chunk. *)
(***************************************************************************)
EXTENDS Naturals, SequencesExt

CONSTANTS
  Streams, Posts,   \* clients of a streaming and of a plain request
  MaxReplays,       \* Gateway.max_replays
  Letters,
  Answers,          \* the answers the upstream may give, as sequences of Letters
  MaxOutages        \* bound: times that the upstream goes down

ASSUME ClientsAssumption == Streams \cap Posts = {}
ASSUME MaxReplaysAssumption == MaxReplays \in Nat
ASSUME AnswersAssumption == Answers # {} /\ Answers \subseteq Seq(Letters)
ASSUME MaxOutagesAssumption == MaxOutages \in Nat

Clients == Streams \cup Posts

VARIABLES
  available,   \* PipelineState.available; resume_event is set exactly with it
  reason,      \* PipelineState.reason
  up,          \* the upstream serves
  outages,     \* history: times that it went down
  answer,      \* answer[c]: what the upstream generates for the stream of c
  conn         \* conn[c]: where the handler of c is

gatewayVars == <<available, reason, up, outages, answer, conn>>

Reasons == {"initial", "manual", "error", "recovered", "resumed"}
Phases == {"new", "rejected", "calling", "waiting", "probing", "replaying",
           "done", "failed", "aborted", "gone"}
Replies == {"none", "restarted", "continued", "diverged"}

Links == {"none", "open", "broken"}

\* link: the connection to the upstream; late: the deadline of _wait_for_pipeline
\* has passed; reply: history, what the upstream made of the replay.
NewConn == [phase |-> "new", link |-> "none", attempt |-> 0, sent |-> <<>>,
            late |-> FALSE, reply |-> "none"]

Conns == [phase : Phases, link : Links, attempt : 0..(MaxReplays + 1), sent : Seq(Letters),
          late : BOOLEAN, reply : Replies]

GatewayTypeOK ==
  /\ available \in BOOLEAN /\ up \in BOOLEAN
  /\ reason \in Reasons
  /\ outages \in 0..MaxOutages
  /\ answer \in [Streams -> Answers]
  /\ conn \in [Clients -> Conns]

GatewayInit ==
  /\ available = TRUE /\ reason = "initial"
  /\ up = TRUE /\ outages = 0
  /\ answer \in [Streams -> Answers]
  /\ conn = [c \in Clients |-> NewConn]

-----------------------------------------------------------------------------
(* PipelineState *)

\* The first reason is kept.
MarkDown(why) ==
  /\ available' = FALSE
  /\ reason' = IF available THEN why ELSE reason

MarkUp(why) == available' = TRUE /\ reason' = why

-----------------------------------------------------------------------------
(* The upstream and the operator *)

\* vLLM is killed: nothing more comes over its connections.
UpstreamDown ==
  /\ up /\ outages < MaxOutages
  /\ up' = FALSE
  /\ outages' = outages + 1
  /\ conn' = [c \in Clients |->
                IF conn[c].link = "open" THEN [conn[c] EXCEPT !.link = "broken"] ELSE conn[c]]
  /\ UNCHANGED <<available, reason, answer>>

UpstreamUp ==
  /\ ~up
  /\ up' = TRUE
  /\ UNCHANGED <<available, reason, outages, answer, conn>>

Drain ==
  /\ MarkDown("manual")
  /\ UNCHANGED <<up, outages, answer, conn>>

Resume ==
  /\ MarkUp("resumed")
  /\ UNCHANGED <<up, outages, answer, conn>>

-----------------------------------------------------------------------------
(* A request and its calls to the upstream *)

\* c's handler goes on to a phase, without a connection.
Goto(c, phase) == conn' = [conn EXCEPT ![c].phase = phase, ![c].link = "none"]

\* proxy: a request is turned away while the pipeline is not available.
Proxy(c) ==
  /\ conn[c].phase = "new"
  /\ Goto(c, IF available THEN "calling" ELSE "rejected")
  /\ UNCHANGED <<available, reason, up, outages, answer>>

\* The upstream accepts the call.
Connect(c) ==
  /\ conn[c].phase \in {"calling", "replaying"}
  /\ conn[c].link = "none"
  /\ up
  /\ conn' = [conn EXCEPT ![c].link = "open"]
  /\ UNCHANGED <<available, reason, up, outages, answer>>

\* One chunk of _stream_once, recorded in sent and passed to the client.
Chunk(c) ==
  /\ c \in Streams /\ conn[c].phase = "calling" /\ conn[c].link = "open"
  /\ Len(conn[c].sent) < Len(answer[c])
  /\ conn' = [conn EXCEPT ![c].sent = Append(@, answer[c][Len(@) + 1])]
  /\ UNCHANGED <<available, reason, up, outages, answer>>

\* The stream is complete, or the response of a plain request arrives.
Complete(c) ==
  /\ conn[c].phase = "calling" /\ conn[c].link = "open"
  /\ c \in Streams => conn[c].sent = answer[c]
  /\ Goto(c, "done")
  /\ UNCHANGED <<available, reason, up, outages, answer>>

\* Faulty variants: attempts are compared off by one; without stall_timeout_s a
\* connection to a killed upstream hangs.
CallFailsOnceMore(c) ==
  /\ conn[c].phase = "calling"
  /\ MarkDown("error")
  /\ conn' = [conn EXCEPT ![c].attempt = @ + 1, ![c].link = "none", ![c].late = FALSE,
                          ![c].phase = IF conn[c].attempt > MaxReplays THEN "failed" ELSE "waiting"]
  /\ UNCHANGED <<up, outages, answer>>

CallFailsAudibly(c) ==
  /\ conn[c].phase = "calling"
  /\ conn[c].link # "broken"
  /\ MarkDown("error")
  /\ conn' = [conn EXCEPT ![c].attempt = @ + 1, ![c].link = "none", ![c].late = FALSE,
                          ![c].phase = IF conn[c].attempt + 1 > MaxReplays THEN "failed" ELSE "waiting"]
  /\ UNCHANGED <<up, outages, answer>>

\* The call raises: no connection, a broken one, a status of 400 or above, or
\* nothing received for stall_timeout_s.  After max_replays the client gets an error
\* at once, otherwise the handler enters _wait_for_pipeline.
CallFails(c) ==
  /\ conn[c].phase = "calling"
  /\ MarkDown("error")
  /\ conn' = [conn EXCEPT ![c].attempt = @ + 1, ![c].link = "none", ![c].late = FALSE,
                          ![c].phase = IF conn[c].attempt + 1 > MaxReplays THEN "failed" ELSE "waiting"]
  /\ UNCHANGED <<up, outages, answer>>

-----------------------------------------------------------------------------
(* _wait_for_pipeline *)

DeadlinePasses(c) ==
  /\ conn[c].phase \in {"waiting", "probing"} /\ ~conn[c].late
  /\ conn' = [conn EXCEPT ![c].late = TRUE]
  /\ UNCHANGED <<available, reason, up, outages, answer>>

\* The head of the loop, first condition.
GiveUp(c) ==
  /\ conn[c].phase = "waiting" /\ conn[c].late
  /\ Goto(c, "failed")
  /\ UNCHANGED <<available, reason, up, outages, answer>>

\* A stream goes on with the replay, a plain request is sent again as it was.
Resubmit(c) == Goto(c, IF c \in Streams THEN "replaying" ELSE "calling")

\* Another handler or the operator has marked the pipeline up.
SeeAvailable(c) ==
  /\ conn[c].phase = "waiting" /\ ~conn[c].late
  /\ available
  /\ Resubmit(c)
  /\ UNCHANGED <<available, reason, up, outages, answer>>

Probe(c) ==
  /\ conn[c].phase = "waiting" /\ ~conn[c].late
  /\ ~available
  /\ Goto(c, "probing")
  /\ UNCHANGED <<available, reason, up, outages, answer>>

\* Faulty variant: the waiter goes on by itself.
ProbeAnsweredQuietly(c) ==
  /\ conn[c].phase = "probing"
  /\ up
  /\ Resubmit(c)
  /\ UNCHANGED <<available, reason, up, outages, answer>>

\* GET /v1/models answers 200, whatever has become of available meanwhile.
ProbeAnswered(c) ==
  /\ conn[c].phase = "probing"
  /\ up
  /\ MarkUp("recovered")
  /\ Resubmit(c)
  /\ UNCHANGED <<up, outages, answer>>

ProbeFails(c) ==
  /\ conn[c].phase = "probing"
  /\ ~up
  /\ Goto(c, "waiting")
  /\ UNCHANGED <<available, reason, up, outages, answer>>

-----------------------------------------------------------------------------
(* Replay of a stream *)

\* Outputs of the upstream for [prompt, text sent so far]: the answer from its
\* beginning (as the tests of skip_already_sent have it), its continuation, or,
\* sampled or tokenised differently, another text.
ReplayOutputs(c) ==
  {<<"restarted", answer[c]>>,
   <<"continued", SubSeq(answer[c], Len(conn[c].sent) + 1, Len(answer[c]))>>}
  \cup {<<"diverged", a>> : a \in Answers}

\* Faulty variant: nothing is skipped.
SkipNothing(text, already) == text

\* skip_already_sent: the output without the longest prefix that it has in common
\* with what the client has.
SkipAlreadySent(text, already) ==
  SubSeq(text, Len(LongestCommonPrefix({text, already})) + 1, Len(text))

\* The whole output is collected, then the new part of it is sent.
Replay(c) ==
  /\ conn[c].phase = "replaying" /\ conn[c].link = "open"
  /\ \E out \in ReplayOutputs(c) :
       conn' = [conn EXCEPT ![c].phase = "done", ![c].link = "none", ![c].reply = out[1],
                            ![c].sent = @ \o SkipAlreadySent(out[2], @)]
  /\ UNCHANGED <<available, reason, up, outages, answer>>

\* Faulty variant: the pipeline is marked down, and nobody waits for it.
ReplayFailsDown(c) ==
  /\ conn[c].phase = "replaying"
  /\ MarkDown("error")
  /\ Goto(c, "aborted")
  /\ UNCHANGED <<up, outages, answer>>

\* The replay is collected inside the except clause: what it raises leaves the
\* generator, and the client's stream breaks off without an error event.
ReplayFails(c) ==
  /\ conn[c].phase = "replaying"
  /\ Goto(c, "aborted")
  /\ UNCHANGED <<available, reason, up, outages, answer>>

\* The client of a stream disconnects: the server may cancel its generator at an
\* await.
Disconnect(c) ==
  /\ c \in Streams /\ conn[c].phase \in {"calling", "waiting", "probing", "replaying"}
  /\ Goto(c, "gone")
  /\ UNCHANGED <<available, reason, up, outages, answer>>

-----------------------------------------------------------------------------
\* Steps that the handler of c, with the event loop behind it, keeps taking.
HandlerStep(c) ==
  \/ Connect(c) \/ Chunk(c) \/ Complete(c) \/ CallFails(c)
  \/ GiveUp(c) \/ SeeAvailable(c) \/ Probe(c) \/ ProbeAnswered(c) \/ ProbeFails(c)
  \/ Replay(c) \/ ReplayFails(c)

GatewayNext ==
  \/ UpstreamDown \/ UpstreamUp \/ Drain \/ Resume
  \/ \E c \in Clients : Proxy(c) \/ HandlerStep(c) \/ DeadlinePasses(c) \/ Disconnect(c)

GatewaySpec == GatewayInit /\ [][GatewayNext]_gatewayVars

\* A call to the upstream answers or raises within its time limit, and time passes.
FairGatewaySpec ==
  /\ GatewaySpec
  /\ \A c \in Clients :
       WF_gatewayVars(HandlerStep(c)) /\ WF_gatewayVars(DeadlinePasses(c))

-----------------------------------------------------------------------------
(* Properties *)

\* s is t with at most one stretch left out: nothing repeated, nothing moved.
HasOneGap(s, t) ==
  \E i, j \in 0..Len(t) : i <= j /\ s = SubSeq(t, 1, i) \o SubSeq(t, j + 1, Len(t))

\* The client of a stream sees a prefix of the answer at any time, and all of it in
\* the end, also across a failure with a replay that starts the answer again.  If
\* the replay continues the answer instead, the client sees nothing twice, but a
\* part of it may be lost (skip_already_sent takes it for text sent before).
StreamsAreFaithful ==
  \A c \in Streams :
    LET k == conn[c] IN
    /\ k.reply \in {"none", "restarted"} =>
         IsPrefix(k.sent, answer[c]) /\ (k.phase = "done" => k.sent = answer[c])
    /\ k.reply = "continued" => HasOneGap(k.sent, answer[c])

\* A pipeline that an error marked down is probed by a handler, unless the one
\* that would have done it has ended: nothing else ever marks it up by itself.
DownIsWatched ==
  ~available /\ reason = "error" =>
    \E c \in Clients : conn[c].phase \in {"waiting", "probing", "failed", "gone"}

\* Every admitted request ends, although calls fail and stall, the upstream may
\* stay away and the pipeline is drained and resumed at any time.
Ended == {"done", "failed", "aborted", "gone"}
RequestsEnd == \A c \in Clients : conn[c].phase = "calling" ~> conn[c].phase \in Ended

\* Once the upstream serves again, an error's 503 ends without help by hand, as
\* long as no handler has given up.
ReopensWhileWatched ==
  (up /\ ~available /\ reason = "error")
    ~> (available \/ ~up \/ \E c \in Clients : conn[c].phase \in {"failed", "gone"})

\* What the proofs carry from step to step: a handler that is still under way has
\* not used up its attempts, and only streams are replayed.
Underway == {"new", "calling", "waiting", "probing", "replaying"}
AttemptsLeft ==
  \A c \in Clients :
    /\ conn[c].phase \in Underway => conn[c].attempt <= MaxReplays
    /\ conn[c].phase = "replaying" => c \in Streams

GatewayInv == GatewayTypeOK /\ AttemptsLeft /\ DownIsWatched

(* What the documentation says and the code does not do *)

\* The pipeline counts as rebuilt after a resume by hand, or when the upstream's
\* /v1/models is available again: an error does not outlast the upstream's return.
ReopensWhenUp == (up /\ ~available /\ reason = "error") ~> (available \/ ~up)
=============================================================================
