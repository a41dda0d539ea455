----------------------------- MODULE LogStream -----------------------------
(***************************************************************************)
(* The log streams of the dashboard: for each client that asks for one a   *)
(* `docker logs -f` is started, what it writes is passed on, and it is     *)
(* stopped when the client leaves.  Clients leave, containers stop and     *)
(* processes fail at any moment.                                           *)
(***************************************************************************)
EXTENDS Integers, Sequences, SequencesExt, TLC

CONSTANTS Streams, LogChunks     \* bound: lines written to a response

ASSUME StreamAssumption == LogChunks \in Nat

VARIABLES stream,       \* the case: request -> "unknown", "stopped" or "running", its container
          streamPc,     \* request -> "asked", "open", "refused" or "closed" (cleanup is done)
          client,       \* request -> the client is there
          heard,        \* request -> its leaving is listened to
          follower,     \* request -> "none", "running", "killed", "failed" or "exited": docker logs -f
          response      \* request -> what was written

streamVars == <<stream, streamPc, client, heard, follower, response>>
Requests == DOMAIN stream
Is(s, pc) == streamPc[s] = pc
StreamGoes(s, pc, f) == streamPc' = [streamPc EXCEPT ![s] = pc] /\ follower' = [follower EXCEPT ![s] = f]
WriteEvents(s, events) == response' = [response EXCEPT ![s] = @ \o events]

(* The worktree and its container are looked for; what follows is done in   *)
(* one go, the client being listened to last, gone or not.                  *)
RefuseStream(s) ==
  /\ Is(s, "asked") /\ stream[s] = "unknown" /\ StreamGoes(s, "refused", "none")
  /\ WriteEvents(s, <<"refused">>)
  /\ UNCHANGED <<stream, client, heard>>
NoContainer(s) ==
  /\ Is(s, "asked") /\ stream[s] = "stopped" /\ StreamGoes(s, "closed", "none")
  /\ WriteEvents(s, <<"meta", "end">>)
  /\ UNCHANGED <<stream, client, heard>>
OpenStream(s) ==
  /\ Is(s, "asked") /\ stream[s] = "running" /\ StreamGoes(s, "open", "running")
  /\ WriteEvents(s, <<"meta">>)
  /\ heard' = [heard EXCEPT ![s] = client[s]]
  /\ UNCHANGED <<stream, client>>
\* What the follower writes, and the line that keeps the connection, while the stream is open.
WriteChunk(s) ==
  /\ Is(s, "open") /\ Len(response[s]) <= LogChunks
  /\ (follower[s] = "running" /\ WriteEvents(s, <<"chunk">>)) \/ WriteEvents(s, <<"keepalive">>)
  /\ UNCHANGED <<stream, streamPc, client, heard, follower>>
(* The follower cannot run, or ends, with its container or by itself; a     *)
(* stream that was cleaned up takes no notice.                              *)
FollowerError(s) ==
  /\ Is(s, "open") /\ follower[s] = "running" /\ StreamGoes(s, "closed", "failed")
  /\ WriteEvents(s, <<"error", "end">>)
  /\ UNCHANGED <<stream, client, heard>>
FollowerCloses(s) ==
  /\ follower[s] \in {"running", "killed", "failed"}
  /\ IF Is(s, "open") THEN StreamGoes(s, "closed", "exited") /\ WriteEvents(s, <<"end">>)
     ELSE follower' = [follower EXCEPT ![s] = "exited"] /\ UNCHANGED <<streamPc, response>>
  /\ UNCHANGED <<stream, client, heard>>
(* The client leaves: once it is listened to, the follower is killed.       *)
ClientLeaves(s) ==
  /\ client[s] /\ client' = [client EXCEPT ![s] = FALSE]
  /\ IF heard[s] /\ Is(s, "open") THEN StreamGoes(s, "closed", "killed")
                                   ELSE UNCHANGED <<streamPc, follower>>
  /\ UNCHANGED <<stream, heard, response>>

StreamStart(pc) ==
  /\ streamPc = [s \in Requests |-> pc] /\ client = [s \in Requests |-> TRUE]
  /\ heard = [s \in Requests |-> FALSE]
  /\ follower = [s \in Requests |-> "none"] /\ response = [s \in Requests |-> <<>>]
StreamInit == stream \in Streams /\ StreamStart("asked")
StreamNext ==
  \E s \in Requests : \/ RefuseStream(s) \/ NoContainer(s) \/ OpenStream(s) \/ WriteChunk(s)
                      \/ FollowerError(s) \/ FollowerCloses(s) \/ ClientLeaves(s)
StreamSpec == StreamInit /\ [][StreamNext]_streamVars

-----------------------------------------------------------------------------
(* A follower outlives its client only when the client left before the      *)
(* container was found; a response that ended well says so once, last, and  *)
(* a client that is still there is never left without an end once its       *)
(* follower is gone.                                                        *)
StreamsEnd ==
  \A s \in Requests :
    /\ follower[s] = "running" => client[s] \/ ~heard[s]
    /\ \A i \in DOMAIN response[s] : response[s][i] \in {"end", "refused"} => i = Len(response[s])
    /\ client[s] /\ follower[s] \in {"exited", "failed"} => Last(response[s]) = "end"
=============================================================================
