---------------------------- MODULE PortalClient ----------------------------
(***************************************************************************)
(* The client every portal command uses: LiferayGateway with its token in  *)
(* memory, the OAuth token client with its cache on disk, which all ldev   *)
(* processes of a user share, and the HTTP client that repeats a request   *)
(* whose connection broke.                                                 *)
(*                                                                         *)
(* Tokens are numbered in the order the portal issues them and live        *)
(* Lifetime ticks; a restart of the portal, or a new OAuth application,    *)
(* revokes all that were issued before.                                    *)
(***************************************************************************)
EXTENDS Integers, FiniteSets, Sequences, TLC

CONSTANTS Processes,      \* ldev processes
          Requests,       \* requests, each made once
          ProcessOf,      \* the process that makes a request
          Lifetime,       \* ticks a token lives, as expires_in reports
          Skew,           \* ticks the gateway refreshes before that
          Buffer,         \* ticks the disk cache refreshes before that
          MaxAttempts,    \* attempts of the HTTP client, 3 in the code
          MaxClock, MaxRevocations, MaxBreaks   \* bounds

ASSUME ClientAssumption ==
  /\ ProcessOf \in [Requests -> Processes]
  /\ {Lifetime, Skew, Buffer, MaxAttempts} \subseteq Nat \ {0}
  /\ Skew < Lifetime /\ Buffer < Lifetime
  /\ {MaxClock, MaxRevocations, MaxBreaks} \subseteq Nat

VARIABLES now,        \* the clock
          born,       \* time of issue of each token so far; token n is born[n]
          revoked,    \* tokens up to this one are revoked
          revocations,
          disk,       \* [token, until] of the cache file, token 0 for none
          memory,     \* [token, until] of the gateway of each process
          request,    \* what each request is doing, see RequestRecord
          applied,    \* times the portal carried out each request
          breaks      \* connections that broke

clientVars == <<now, born, revoked, revocations, disk, memory, request, applied, breaks>>

NoToken == [token |-> 0, until |-> 0]
Tokens == DOMAIN born
Valid(t) == t \in Tokens /\ t > revoked /\ now < born[t] + Lifetime

(* pc: "none" when it is not made; "start" before a token is chosen; "ask"  *)
(* when a token request is to be sent; "issued" when its answer is on the   *)
(* way; "send" when the request is to be sent; then "ok", "unauthorized" or *)
(* "error".  round is 1, and 2 after the refresh a 401 forces; asked and    *)
(* revs are the time and the number of revocations when the token of this   *)
(* round was chosen.                                                        *)
RequestRecord ==
  [pc : {"none", "start", "ask", "issued", "send", "ok", "unauthorized", "error"}, round : {1, 2},
   token : Nat, asked : Nat, revs : Nat, attempts : Nat, broken : BOOLEAN]

Fresh(pc) == [pc |-> pc, round |-> 1, token |-> 0, asked |-> 0, revs |-> 0,
              attempts |-> 0, broken |-> FALSE]
Finish(r, pc) == request' = [request EXCEPT ![r] = [Fresh(pc) EXCEPT !.broken = request[r].broken]]
Again(r) == request' = [request EXCEPT ![r].pc = "start", ![r].round = 2, ![r].token = 0, ![r].attempts = 0]
FinishBroken(r) == request' = [request EXCEPT ![r] = [Fresh("error") EXCEPT !.broken = TRUE]]

ClientStart(pc) ==
  /\ now = 0 /\ born = <<>> /\ revoked = 0 /\ revocations = 0
  /\ disk = NoToken /\ memory = [p \in Processes |-> NoToken]
  /\ request = [r \in Requests |-> Fresh(pc)]
  /\ applied = [r \in Requests |-> 0] /\ breaks = 0
ClientInit == ClientStart("start")
Busy == {"start", "ask", "issued", "send"}

Forced(r) == request[r].round = 2
Remember(r, t, asked) ==
  memory' = [memory EXCEPT ![ProcessOf[r]] = [token |-> t, until |-> asked + Lifetime - Skew]]

(* getAccessToken and the cache file behind it.  A token from the file is   *)
(* kept in memory for a whole lifetime from now, because the file's entry   *)
(* answers with the lifetime the token had when it was issued.              *)
FromMemory(r) == /\ ~Forced(r)
                 /\ memory[ProcessOf[r]].token # 0 /\ now < memory[ProcessOf[r]].until
BugFromDiskAlways(r) == disk.token # 0 /\ disk.until > now + Buffer
FromDisk(r) == ~Forced(r) /\ disk.token # 0 /\ disk.until > now + Buffer

FileTorn == \E r \in Requests : request[r].pc = "issued"    \* may be read half written

Chooses(r, pc, t) ==
  request' = [request EXCEPT ![r].pc = pc, ![r].token = t, ![r].asked = now, ![r].revs = revocations]
ChooseToken(r) ==
  /\ request[r].pc = "start"
  /\ \/ /\ FromMemory(r)
        /\ Chooses(r, "send", memory[ProcessOf[r]].token)
        /\ UNCHANGED memory
     \/ /\ ~FromMemory(r) /\ FromDisk(r)
        /\ Chooses(r, "send", disk.token)
        /\ Remember(r, disk.token, now)
     \/ /\ ~FromMemory(r) /\ (FromDisk(r) => FileTorn)
        /\ Chooses(r, "ask", 0)
        /\ UNCHANGED memory
  /\ UNCHANGED <<now, born, revoked, revocations, disk, applied, breaks>>

(* The portal issues a token.  invalid_client is asked again after a while, *)
(* invalid_grant again without the scope; both end in a token or an error.  *)
IssueToken(r) ==
  /\ request[r].pc = "ask"
  /\ born' = Append(born, now)
  /\ request' = [request EXCEPT ![r].pc = "issued", ![r].token = Len(born) + 1]
  /\ UNCHANGED <<now, revoked, revocations, disk, memory, applied, breaks>>

TokenRefused(r) ==
  /\ request[r].pc = "ask"
  /\ Finish(r, "error")
  /\ UNCHANGED <<now, born, revoked, revocations, disk, memory, applied, breaks>>

(* The answer arrives, in whatever order: the file is written and then the  *)
(* memory of the gateway, though another answer may have been there first.  *)
StoreToken(r) ==
  /\ request[r].pc = "issued"
  /\ disk' = [token |-> request[r].token, until |-> now + Lifetime]
  /\ Remember(r, request[r].token, request[r].asked)
  /\ request' = [request EXCEPT ![r].pc = "send"]
  /\ UNCHANGED <<now, born, revoked, revocations, applied, breaks>>

BugAnsweredTwice(r) ==
  /\ request[r].pc = "send"
  /\ IF Valid(request[r].token) THEN applied' = [applied EXCEPT ![r] = @ + 1] ELSE UNCHANGED applied
  /\ IF Forced(r)
       THEN Finish(r, IF Valid(request[r].token) THEN "ok" ELSE "unauthorized")
       ELSE Again(r)
  /\ UNCHANGED <<now, born, revoked, revocations, disk, memory, breaks>>

(* The portal carries the request out and answers, or answers 401.          *)
Answered(r) ==
  /\ request[r].pc = "send"
  /\ IF Valid(request[r].token)
       THEN /\ applied' = [applied EXCEPT ![r] = @ + 1]
            /\ Finish(r, "ok")
       ELSE /\ UNCHANGED applied
            /\ IF Forced(r)
                 THEN Finish(r, "unauthorized")
                 ELSE Again(r)
  /\ UNCHANGED <<now, born, revoked, revocations, disk, memory, breaks>>

(* The connection breaks, before or after the portal carried it out.        *)
ConnectionBreaks(r) ==
  /\ request[r].pc = "send" /\ breaks < MaxBreaks
  /\ breaks' = breaks + 1
  /\ \/ UNCHANGED applied
     \/ Valid(request[r].token) /\ applied' = [applied EXCEPT ![r] = @ + 1]
  /\ IF request[r].attempts + 1 < MaxAttempts
       THEN request' = [request EXCEPT ![r].attempts = @ + 1, ![r].broken = TRUE]
       ELSE FinishBroken(r)
  /\ UNCHANGED <<now, born, revoked, revocations, disk, memory>>

(* No answer within timeoutSeconds: the message of the abort is none of     *)
(* those that are repeated.                                                 *)
RequestTimesOut(r) ==
  /\ request[r].pc = "send" /\ breaks < MaxBreaks
  /\ breaks' = breaks + 1
  /\ \/ UNCHANGED applied
     \/ Valid(request[r].token) /\ applied' = [applied EXCEPT ![r] = @ + 1]
  /\ FinishBroken(r)
  /\ UNCHANGED <<now, born, revoked, revocations, disk, memory>>

Running == \E r \in Requests : request[r].pc \in Busy
Tick == /\ Running /\ now < MaxClock /\ now' = now + 1
        /\ UNCHANGED <<born, revoked, revocations, disk, memory, request, applied, breaks>>
Revoke == /\ Running /\ revocations < MaxRevocations /\ revoked < Len(born)
          /\ revoked' = Len(born) /\ revocations' = revocations + 1
          /\ UNCHANGED <<now, born, disk, memory, request, applied, breaks>>

ClientStep(r) == ChooseToken(r) \/ IssueToken(r) \/ StoreToken(r) \/ Answered(r)
ClientNext ==
  \/ \E r \in Requests : \/ ClientStep(r) \/ TokenRefused(r)
                         \/ ConnectionBreaks(r) \/ RequestTimesOut(r)
  \/ Tick \/ Revoke
ClientSpec == /\ ClientInit /\ [][ClientNext]_clientVars
              /\ \A r \in Requests : WF_clientVars(ClientStep(r))

-----------------------------------------------------------------------------
(* A request comes back unauthorized only if the portal revoked its tokens, *)
(* or a whole lifetime passed, after the second token was asked for: a      *)
(* stale token, of this process or of another that wrote the cache file,    *)
(* never makes a command fail.                                              *)
UnauthorizedMeansRevoked ==
  [][\A r \in Requests :
       request[r].pc # "unauthorized" /\ request'[r].pc = "unauthorized" =>
         revocations > request[r].revs \/ now >= request[r].asked + Lifetime]_clientVars

(* What a command may rely on, RequestOutcome: an answer is true of the      *)
(* portal, a request is carried out once unless a connection broke, and     *)
(* every request ends.                                                      *)
Outcome == INSTANCE RequestOutcome
  WITH outcome <- [r \in Requests |-> IF request[r].pc \in Busy THEN "pending" ELSE request[r].pc],
       carried <- applied,
       broken  <- [r \in Requests |-> request[r].broken]
ImplementsOutcome == Outcome!FairSpec
=============================================================================
