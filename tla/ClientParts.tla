----------------------------- MODULE ClientParts -----------------------------
(***************************************************************************)
(* Four models of gateway_client that share no state, side by side: the    *)
(* stop (ClientStop), the audio path, the framing of the stream and the    *)
(* audio trace.  A behaviour is one of one part; the other parts rest in   *)
(* an initial state.                                                       *)
(***************************************************************************)
EXTENDS ClientStop

VARIABLE part

(* ClientFraming *)
CONSTANTS Lens, Garbage, RingSize, MaxMade, MaxCuts

VARIABLES ring, made, book, written, client, out, damaged, cut, lastLoss, cuts

Framing == INSTANCE ClientFraming WITH
  Packets <- MaxMade, MaxFaults <- MaxCuts,
  lost <- lastLoss, faults <- cuts

(* ClientAudio *)
CONSTANTS Prebuffer, Target, MaxBuffer, Sizes, Chunks, MaxRefused

VARIABLES queue, queued_bytes, started, service, reader, window, plays, device, arrived,
          dropped, played, refused

Audio == INSTANCE ClientAudio WITH
  Packets <- Chunks, MaxFaults <- MaxRefused,
  running <- plays, main <- window, lost <- dropped, faults <- refused

(* AudioTrace *)
CONSTANTS MaxSize, Slice, W, MaxSends, MaxStarts

VARIABLES size, index, cursor, sends, starts, prev, gaps, jumps, missing, anew

Trace == INSTANCE AudioTrace WITH lost <- missing

ASSUME PartsAssumption ==
  Audio!AudioAssumption /\ Framing!FramingAssumption /\ Trace!AudioTraceAssumption

framingVars == <<ring, made, book, written, client, out, damaged, cut, lastLoss, cuts>>
audioVars   == <<queue, queued_bytes, started, service, reader, window, plays, device, arrived,
                 dropped, played, refused>>
traceVars   == <<size, index, cursor, sends, starts, prev, gaps, jumps, missing, anew>>
clientVars  == <<part, vars, framingVars, audioVars, traceVars>>

ClientInit ==
  /\ part \in {"audio", "framing", "stop", "trace"}
  /\ Init /\ Framing!Init /\ Audio!Init /\ Trace!Init
  /\ part # "framing" => client.prefetch = <<>> /\ \A len \in Lens : written <= Framing!HeaderSize + len
  /\ part # "stop" => kind = "usb" /\ program = "play"
  /\ part # "trace" => size = 1

AudioNext   == part = "audio" /\ Audio!Next /\ UNCHANGED <<part, vars, framingVars, traceVars>>
FramingNext == part = "framing" /\ Framing!Next /\ UNCHANGED <<part, vars, audioVars, traceVars>>
StopNext    == part = "stop" /\ Next /\ UNCHANGED <<part, framingVars, audioVars, traceVars>>
TraceNext   == part = "trace" /\ Trace!Next /\ UNCHANGED <<part, vars, framingVars, audioVars>>

(* The bounds of these two parts end their behaviours. *)
BoundReached ==
  part \in {"framing", "trace"} /\ UNCHANGED <<part, vars, framingVars, audioVars, traceVars>>

ClientNext == AudioNext \/ FramingNext \/ StopNext \/ TraceNext \/ BoundReached

(* The fairness of ClientAudio and of ClientStop, each in its own part. *)
AudioFairness ==
  /\ WF_audioVars(part = "audio" /\ Audio!Plays)
  /\ WF_audioVars(part = "audio" /\ Audio!MainReturns) /\ WF_audioVars(part = "audio" /\ Audio!ReaderReturns)
  /\ WF_audioVars(part = "audio" /\ Audio!MainEnters) /\ WF_audioVars(part = "audio" /\ Audio!ReaderEnters)
  /\ \A t \in Audio!Threads : WF_audioVars(part = "audio" /\ Audio!Service(t))

StopFairness ==
  /\ WF_vars(part = "stop" /\ DiagStarts)
  /\ WF_vars(part = "stop" /\ MainSeesEnd)
  /\ WF_vars(part = "stop" /\ WatchdogWakes)
  /\ WF_vars(part = "stop" /\ Joins) /\ WF_vars(part = "stop" /\ Closes)
  /\ \A t \in {"main", "other"} :
       /\ WF_vars(part = "stop" /\ Reads(t))
       /\ WF_vars(part = "stop" /\ StopCall(t))

ClientSpec == ClientInit /\ [][ClientNext]_clientVars /\ AudioFairness /\ StopFairness

-----------------------------------------------------------------------------
(* No PCM data is reordered, duplicated or miscounted by the two threads,  *)
(* playback starts, and its latency is bounded.                            *)
AudioSound == Audio!AudioSound

(* Over a stream that is cut, the client hands on packets in order and     *)
(* under their own names, and is in step again within one payload.         *)
FramingSound == Framing!TypeOK /\ Framing!Faithful /\ Framing!Recovers

(* What the client reports of the audio chunks is what was lost. *)
TraceSound == Trace!TraceSound

(* Queued audio is played, a stop ends the program although a thread is    *)
(* inside a blocking read, and a dump ends after its seconds.              *)
ClientLive == Audio!BacklogPlays /\ StopEnds /\ DiagEnds
=============================================================================
