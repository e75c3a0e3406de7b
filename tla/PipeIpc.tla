------------------------------- MODULE PipeIpc ------------------------------
(***************************************************************************)
(* IpcRequests over the named pipe: the client of the desktop and the command *)
(* line (proxyduck-common/src/ipc.rs) and the server in front of the API   *)
(* router (core/ipc.rs).  A pipe has a limited number of instances; one of *)
(* them listens, each of the others is held by a client, which may fall    *)
(* silent, read nothing or leave at any point.                             *)
(***************************************************************************)
EXTENDS Integers, FiniteSets

CONSTANTS
  Clients,
  IpcRequests,   \* what they may ask for, see Verdict
  MaxInstances,  \* max_instances
  Empty          \* no request, no answer

Refused == {"forbidden", "payload_too_large", "unsupported_version", "invalid_request",
            "not_found"}
\* What only the router answers.
Routed == {"ok", "deadline_exceeded", "conflict", "unavailable"}

ASSUME PipeAssumption ==
  /\ IsFiniteSet(Clients)
  /\ MaxInstances \in Nat \ {0}
  /\ Empty \notin IpcRequests /\ Empty \notin Refused \cup Routed

VARIABLES
  listener,   \* "creating" an instance, "listening", or in "backoff"
  ready,      \* has the service host been told that the pipe is there?
  handler,    \* what the task of a client's instance does, "none" without one
  client,     \* what a client has done so far
  request,    \* its request
  answer      \* the server's answer, from when there is one until it is taken

ivars == <<listener, ready, handler, client, request, answer>>

\* Instances in use.
Held == {c \in Clients : handler[c] # "none"}
Instances == Cardinality(Held) + (IF listener = "listening" THEN 1 ELSE 0)

----------------------------------------------------------------------------
(* What the server makes of a request: [who, size, frame, version, fields,   *)
(* path, elevated].                                                          *)

\* client_sid and the check at the head of handle_client.
Authorized(r) == r.who \in {"installer", "admin", "system"}

\* encode_frame and decode_frame: one whole frame within the limit.
FrameFits(r) == r.size = "fits"

\* Decoding, the version, and IpcRequest::validate.
Valid(r) == r.frame = "whole" /\ r.version = 1 /\ r.fields = "valid"

\* is_known_api_path, a prefix of whole segments.
Exposed(r) == r.path = "known"

\* requires_elevation by method and path, or a PUT /config with another
\* engine mode than the present one.
Allowed(r) == r.elevated => r.who \in {"admin", "system"}

\* The checks of handle_client and dispatch after the frame was read.
Verdict(r) ==
  IF ~Valid(r) THEN IF r.frame = "whole" /\ r.version # 1 THEN "unsupported_version"
                    ELSE "invalid_request"
  ELSE IF ~Exposed(r) THEN "not_found"
  ELSE IF ~Allowed(r) THEN "forbidden" ELSE "route"

\* status_to_error, of what the router may answer.
Refusals == {"not_found", "conflict", "unavailable", "invalid_request"}

----------------------------------------------------------------------------
(* The listener (serve, create_pipe).                                        *)

Create ==
  /\ listener = "creating"
  /\ Instances < MaxInstances
  /\ listener' = "listening"
  /\ ready' = TRUE
  /\ UNCHANGED <<handler, client, request, answer>>

\* Every instance is held: one second later again.
CreateFails ==
  /\ listener = "creating"
  /\ Instances >= MaxInstances
  /\ listener' = "backoff"
  /\ UNCHANGED <<ready, handler, client, request, answer>>

\* The client that opened it was gone before connect(): 250 ms later again.
ConnectFails ==
  /\ listener = "listening"
  /\ listener' = "backoff"
  /\ UNCHANGED <<ready, handler, client, request, answer>>

Retry ==
  /\ listener = "backoff"
  /\ listener' = "creating"
  /\ UNCHANGED <<ready, handler, client, request, answer>>

----------------------------------------------------------------------------
(* A client (request_named_pipe).                                            *)

\* It opens the listening instance and verifies who serves it; until there is
\* one it tries every 50 ms.
Open(c) ==
  /\ client[c] = "away" /\ handler[c] = "none"
  /\ listener = "listening"
  /\ listener' = "creating"
  /\ \E r \in IpcRequests : request' = [request EXCEPT ![c] = r]
  /\ client' = [client EXCEPT ![c] = "connected"]
  /\ handler' = [handler EXCEPT ![c] = "identify"]
  /\ UNCHANGED <<ready, answer>>

\* The length, then the payload.
Send(c) ==
  /\ client[c] \in {"connected", "announced"}
  /\ client' = [client EXCEPT ![c] = IF @ = "connected" THEN "announced" ELSE "sent"]
  /\ UNCHANGED <<listener, ready, handler, request, answer>>

\* It closes the pipe: its deadline passed, the server was not the registered
\* service, or the process ended.
Leave(c) ==
  /\ client[c] # "away"
  /\ client' = [client EXCEPT ![c] = "away"]
  /\ UNCHANGED <<listener, ready, handler, request, answer>>

----------------------------------------------------------------------------
(* The task of an instance (handle_client, dispatch, write_response).        *)

Proceeds(c, step) == handler' = [handler EXCEPT ![c] = step]

Answers(c, a) ==
  /\ answer' = [answer EXCEPT ![c] = a]
  /\ Proceeds(c, "write")

Identify(c) ==
  /\ handler[c] = "identify"
  /\ IF Authorized(request[c]) THEN Proceeds(c, "length") /\ UNCHANGED answer
                               ELSE Answers(c, "forbidden")
  /\ UNCHANGED <<listener, ready, client, request>>

ReadLength(c) ==
  /\ handler[c] = "length" /\ client[c] \in {"announced", "sent"}
  /\ IF FrameFits(request[c]) THEN Proceeds(c, "payload") /\ UNCHANGED answer
                              ELSE Answers(c, "payload_too_large")
  /\ UNCHANGED <<listener, ready, client, request>>

ReadPayload(c) ==
  /\ handler[c] = "payload" /\ client[c] = "sent"
  /\ IF Verdict(request[c]) = "route" THEN Proceeds(c, "dispatch") /\ UNCHANGED answer
                                      ELSE Answers(c, Verdict(request[c]))
  /\ UNCHANGED <<listener, ready, client, request>>

\* The router answers; a handler that waits is dropped at the deadline, with
\* whatever it had done by then; an answer that does not fit is replaced.
Dispatch(c) ==
  /\ handler[c] = "dispatch"
  /\ \E a \in {"ok", "payload_too_large", "deadline_exceeded"} \cup Refusals : Answers(c, a)
  /\ UNCHANGED <<listener, ready, client, request>>

\* The task ends and its instance with it.
Ends(c) ==
  /\ handler' = [handler EXCEPT ![c] = "none"]
  /\ request' = [request EXCEPT ![c] = Empty]
  /\ answer' = [answer EXCEPT ![c] = Empty]

\* The answer fits the pipe's buffer, or is read by the client.
WriteResponse(c) ==
  /\ handler[c] = "write" /\ client[c] # "away"
  /\ client' = [client EXCEPT ![c] = "answered"]
  /\ Ends(c)
  /\ UNCHANGED <<listener, ready>>

\* Only the timeout of a read is looked at: the read of a client that left ends
\* with what there is, zeros included, and that is no request.
ReadBroken(c) ==
  /\ handler[c] \in {"length", "payload"} /\ client[c] = "away"
  /\ Answers(c, "invalid_request")
  /\ UNCHANGED <<listener, ready, client, request>>

\* A client that left cannot be identified, nor written to.
Broken(c) ==
  /\ handler[c] \in {"identify", "write"} /\ client[c] = "away"
  /\ Ends(c)
  /\ UNCHANGED <<listener, ready, client>>

\* Mutant: no deadline for the payload.
ExpireLength(c) ==
  /\ handler[c] \in {"length", "write"}
  /\ Ends(c)
  /\ UNCHANGED <<listener, ready, client>>

\* The deadline of each read and write: the instance is given up.
Expire(c) ==
  /\ handler[c] \in {"length", "payload", "write"}
  /\ Ends(c)
  /\ UNCHANGED <<listener, ready, client>>

----------------------------------------------------------------------------

IInit ==
  /\ listener = "creating" /\ ready = FALSE
  /\ handler = [c \in Clients |-> "none"]
  /\ client = [c \in Clients |-> "away"]
  /\ request = [c \in Clients |-> Empty]
  /\ answer = [c \in Clients |-> Empty]

Serves(c) == Identify(c) \/ ReadLength(c) \/ ReadPayload(c) \/ Dispatch(c) \/ WriteResponse(c)
             \/ ReadBroken(c) \/ Broken(c)

INext ==
  \/ Create \/ CreateFails \/ ConnectFails \/ Retry
  \/ \E c \in Clients : Open(c) \/ Send(c) \/ Leave(c) \/ Serves(c) \/ Expire(c)

ISpec == IInit /\ [][INext]_ivars

\* The server's tasks run and its timers fire; of the clients nothing is
\* assumed.  A connect() that fails for ever would be a server of its own kind.
IFair ==
  /\ WF_ivars(Create) /\ WF_ivars(CreateFails) /\ WF_ivars(Retry)
  /\ \A c \in Clients : WF_ivars(Serves(c)) /\ WF_ivars(Expire(c))

IFairSpec == ISpec /\ IFair

----------------------------------------------------------------------------
(* Properties.                                                               *)

\* Whatever the clients do or leave undone, even when all instances are held at
\* once by clients that say nothing, the pipe listens again and again (serve,
\* handle_client, write_response).
ListensAgain == []<>(listener = "listening")

\* Instances are given back: never more than max_instances.
WithinInstances == Instances <= MaxInstances

\* No request reaches the router, and none gets an answer that only the router
\* gives, but one of an authorized user that came whole, is valid, names what
\* the pipe exposes and needs no more rights than its client has.
OnlyPermittedRouted ==
  \A c \in Clients :
    handler[c] = "dispatch" \/ answer[c] \in Routed =>
      Authorized(request[c]) /\ FrameFits(request[c]) /\ Verdict(request[c]) = "route"

\* An answer is the answer to the one request of its instance: it is there from
\* when it is to be written until the instance ends, and is not changed.
OneAnswer ==
  [][\A c \in Clients : answer[c] # Empty /\ handler'[c] # "none" =>
                         answer'[c] = answer[c] /\ request'[c] = request[c]]_ivars

\* What holds between two steps of a client's instance.
InstanceOK(c) ==
  /\ handler[c] = "none" <=> request[c] = Empty
  /\ handler[c] # "none" => request[c] \in IpcRequests
  /\ handler[c] = "write" <=> answer[c] # Empty
  /\ handler[c] \in {"length", "payload", "dispatch"} => Authorized(request[c])
  /\ handler[c] \in {"payload", "dispatch"} => FrameFits(request[c])

PipeTypeOK ==
  /\ listener \in {"creating", "listening", "backoff"}
  /\ ready \in BOOLEAN
  /\ handler \in [Clients -> {"none", "identify", "length", "payload", "dispatch", "write"}]
  /\ client \in [Clients -> {"away", "connected", "announced", "sent", "answered"}]
  /\ request \in [Clients -> IpcRequests \cup {Empty}]
  /\ answer \in [Clients -> Refused \cup Routed \cup {Empty}]

\* The service is told that the pipe is there before it serves anybody.
ReadyFirst == ~ready => listener # "listening" /\ Held = {}

PipeInv ==
  /\ PipeTypeOK /\ WithinInstances /\ OnlyPermittedRouted /\ ReadyFirst
  /\ \A c \in Clients : InstanceOK(c)
=============================================================================
