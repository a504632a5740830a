------------------------------- MODULE Server -------------------------------
(***************************************************************************)
(* The HTTP server (examples/server/server.cpp).  The handlers of          *)
(* /inference, /load and /health run on the threads of httplib's pool; the *)
(* first two share one whisper context and one whisper_params under        *)
(* whisper_mutex, /health reads the atomic state without it.  A handler    *)
(* may end early or throw, a client may close its connection at any time,  *)
(* and a signal stops the server, a second one ends the process.           *)
(*                                                                         *)
(* Kept: every early return, status code, lock and order of effects.       *)
(* Abstracted: audio and text (a result is named by the request whose      *)
(* audio it comes from; of the audio, whether there is speech in it), the  *)
(* values of parameters (named by who set them) and five fields that stand *)
(* for all those of get_req_parameters.                                    *)
(***************************************************************************)
EXTENDS Naturals, Sequences, FiniteSets, SequencesExt

CONSTANTS
  Requests,         \* the requests made to the server, one per connection
  Inputs,           \* what a request may ask for (IsInput)
  Models,           \* models that load
  Multilingual,     \* the multilingual ones
  Failures,         \* what may go wrong in an inference
  NPool,            \* CPPHTTPLIB_THREAD_POOL_COUNT
  ffmpeg_converter, \* sparams.ffmpeg_converter
  n_processors,     \* params.n_processors, which no request can set
  None              \* no request, no model, no status yet

(* In the order of get_req_parameters; std::stoi and std::stof may throw. *)
FieldOrder ==
  <<"offset_t", "translate", "language", "detect_language", "temperature">>
Fields == Range(FieldOrder)
Numeric == {"offset_t", "temperature"}
Position(f) == CHOOSE k \in DOMAIN FieldOrder : FieldOrder[k] = f

(* A load names a model, a file that does not exist ("missing"), a file that *)
(* is no model ("broken"), or has no field ("no_field").                     *)
IsInput(x) ==
  \/ /\ x.kind = "inference"
     /\ x.file \in BOOLEAN /\ x.speech \in BOOLEAN /\ x.fields \subseteq Fields
  \/ x.kind = "load" /\ x.model \in Models \cup {"missing", "broken", "no_field"}
  \/ x.kind = "health"

ASSUME InputsAssumption == \A x \in Inputs : IsInput(x)
ASSUME ModelsAssumption ==
  /\ Models # {} /\ Multilingual \subseteq Models
  /\ None \notin Models \cup Requests \cup {200, 404, 499, 500, 503}
ASSUME RequestsAssumption == Requests \cap {"default", "model"} = {}
ASSUME FailuresAssumption ==
  Failures \subseteq {"number", "convert", "read", "process", "close"}
ASSUME ServerAssumption ==
  NPool \in Nat \ {0} /\ n_processors \in Nat \ {0} /\ ffmpeg_converter \in BOOLEAN

VARIABLES
  server,        \* "listening", "stopping", "stopped" or "exited"
  state,         \* the atomic server_state
  ctx,           \* the model of the whisper context, None when freed
  results,       \* the request whose segments the context holds, or None
  whisper_mutex, \* its owner or None
  params,        \* params[f]: who set it: "default", a request, "model"
  temp_files,    \* requests whose temporary file exists
  pc, input, closed, response   \* per request

shared == <<state, ctx, results, params, temp_files>>
vars == <<server, shared, whisper_mutex, pc, input, closed, response>>

default_params == [f \in Fields |-> "default"]
NoResponse == [status |-> None, of |-> None, params |-> None]

InHandler == {"lock", "health", "params", "convert", "read", "run", "answer",
              "check", "init", "ready", "reply"}
Busy == {r \in Requests : pc[r] \in InHandler}

Init ==
  /\ server = "listening"
  /\ state = "READY"
  /\ ctx \in Models
  /\ results = None
  /\ whisper_mutex = None
  /\ params = default_params
  /\ temp_files = {}
  /\ pc = [r \in Requests |-> "new"]
  /\ input = [r \in Requests |-> None]
  /\ closed = {}
  /\ response = [r \in Requests |-> NoResponse]

Goto(r, l) == pc' = [pc EXCEPT ![r] = l]

(* A handler returns: the lock_guard is destroyed, the response is written  *)
(* afterwards.  A status that is not set is 200.                            *)
Finish(r, status) ==
  /\ Goto(r, "reply")
  /\ whisper_mutex' = None
  /\ response' = [response EXCEPT ![r].status = status]

-----------------------------------------------------------------------------
(* httplib: connections wait for a thread of the pool; once the server is   *)
(* stopped the waiting ones are closed without an answer.                   *)
Arrive(r, x) ==
  /\ server = "listening"
  /\ pc[r] = "new"
  /\ Goto(r, "queued")
  /\ input' = [input EXCEPT ![r] = x]
  /\ UNCHANGED <<server, shared, whisper_mutex, closed, response>>

Accept(r) ==
  /\ pc[r] = "queued"
  /\ Cardinality(Busy) < NPool
  /\ Goto(r, IF server = "stopping" THEN "done"
             ELSE IF input[r].kind = "health" THEN "health" ELSE "lock")
  /\ UNCHANGED <<server, shared, whisper_mutex, input, closed, response>>

Disconnect(r) ==
  /\ "close" \in Failures
  /\ pc[r] \in InHandler
  /\ closed' = closed \cup {r}
  /\ UNCHANGED <<server, shared, whisper_mutex, pc, input, response>>

(* The error handler of the server replaces every status of 400 or more but *)
(* 400 and 500.                                                             *)
ErrorHandler(status) == IF status < 400 \/ status \in {400, 500} THEN status ELSE 404

Reply(r) ==
  /\ pc[r] = "reply"
  /\ Goto(r, "done")
  /\ response' = [response EXCEPT ![r].status = ErrorHandler(@)]
  /\ UNCHANGED <<server, shared, whisper_mutex, input, closed>>

-----------------------------------------------------------------------------
(* /inference *)

(* A plausible slip: the handler does not take the lock. *)
InferenceBeginUnlocked(r) ==
  /\ pc[r] = "lock" /\ input[r].kind = "inference"
  /\ IF input[r].file
     THEN Goto(r, "params") /\ UNCHANGED <<whisper_mutex, response>>
     ELSE Finish(r, 200)
  /\ UNCHANGED <<server, shared, input, closed>>

(* The lock is taken; a request without a file is refused. *)
InferenceBegin(r) ==
  /\ pc[r] = "lock" /\ input[r].kind = "inference"
  /\ whisper_mutex = None
  /\ IF input[r].file
     THEN whisper_mutex' = r /\ Goto(r, "params") /\ UNCHANGED response
     ELSE Finish(r, 200)
  /\ UNCHANGED <<server, shared, input, closed>>

(* Fields that are not given keep their value.                             *)
Assign(fs, r) == [f \in Fields |-> IF f \in fs THEN r ELSE params[f]]

(* A plausible slip: the lock is not released when an exception is thrown. *)
GetReqParametersKeepsLock(r) ==
  /\ pc[r] = "params"
  /\ \/ /\ params' = Assign(input[r].fields, r)
        /\ Goto(r, IF ffmpeg_converter THEN "convert" ELSE "read")
        /\ UNCHANGED response
     \/ /\ "number" \in Failures
        /\ \E f \in input[r].fields \cap Numeric :
             params' = Assign({g \in input[r].fields : Position(g) < Position(f)}, r)
        /\ Goto(r, "reply")
        /\ response' = [response EXCEPT ![r].status = 500]
  /\ UNCHANGED <<server, state, ctx, results, whisper_mutex, temp_files,
                 input, closed>>

(* get_req_parameters; a number that cannot be read throws when the fields  *)
(* before it have been assigned, and the exception handler answers 500.     *)
GetReqParameters(r) ==
  /\ pc[r] = "params"
  /\ \/ /\ params' = Assign(input[r].fields, r)
        /\ Goto(r, IF ffmpeg_converter THEN "convert" ELSE "read")
        /\ UNCHANGED <<whisper_mutex, response>>
     \/ /\ "number" \in Failures
        /\ \E f \in input[r].fields \cap Numeric :
             params' = Assign({g \in input[r].fields : Position(g) < Position(f)}, r)
        /\ Finish(r, 500)
  /\ UNCHANGED <<server, state, ctx, results, temp_files, input, closed>>

(* The upload is written to a temporary file that ffmpeg converts. *)
Convert(r) ==
  /\ pc[r] = "convert"
  /\ temp_files' = temp_files \cup {r}
  /\ \/ Goto(r, "read") /\ UNCHANGED <<whisper_mutex, response>>
     \/ "convert" \in Failures /\ Finish(r, 200)
  /\ UNCHANGED <<server, state, ctx, results, params, input, closed>>

(* Before the inference a model that is not multilingual replaces language  *)
(* and translate, unless they are what it can do; then detect_language,     *)
(* whoever has set it, replaces the language by "auto" if it is true.       *)
ForModel ==
  {params} \cup
  IF ctx \in Multilingual THEN {}
  ELSE {[params EXCEPT !["language"] = "model", !["translate"] = "model"]}

Override ==
  ForModel \cup {[p EXCEPT !["language"] = p["detect_language"]] : p \in ForModel}

(* The audio is read and the file removed. *)
ReadAudio(r) ==
  /\ pc[r] = "read"
  /\ temp_files' = temp_files \ {r}
  /\ \/ /\ params' \in Override
        /\ Goto(r, "run")
        /\ UNCHANGED <<whisper_mutex, response>>
     \/ "read" \in Failures /\ Finish(r, 200) /\ UNCHANGED params
  /\ UNCHANGED <<server, state, ctx, results, input, closed>>

(* What the context holds when whisper_full_parallel has succeeded: the     *)
(* segments of this audio, and none if VAD has found no speech.  In that    *)
(* case only whisper_full, which it calls for a single processor, clears    *)
(* those of the call before.  VAD may be on or off.                         *)
AfterSuccess(r) ==
  {r} \cup IF input[r].speech \/ n_processors = 1 THEN {} ELSE {results}

(* The transcription succeeds; it is aborted, as the client has closed the  *)
(* connection, or fails: in VAD before the results are cleared, or later.   *)
Process(r) ==
  /\ pc[r] = "run"
  /\ \/ /\ results' \in AfterSuccess(r)
        /\ Goto(r, "answer")
        /\ UNCHANGED <<whisper_mutex, response>>
     \/ /\ results' \in {r, results}
        /\ \/ r \in closed /\ Finish(r, 499)
           \/ r \notin closed /\ "process" \in Failures /\ Finish(r, 500)
  /\ UNCHANGED <<server, state, ctx, params, temp_files, input, closed>>

(* A plausible slip: params is not reset. *)
AnswerKeepsParams(r) ==
  /\ pc[r] = "answer"
  /\ Goto(r, "reply")
  /\ whisper_mutex' = None
  /\ response' = [response EXCEPT ![r] = [status |-> 200, of |-> results,
                                          params |-> params]]
  /\ UNCHANGED <<server, shared, input, closed>>

(* The response is built from the context's results, in the format that     *)
(* params asks for; params is reset.                                        *)
Answer(r) ==
  /\ pc[r] = "answer"
  /\ Goto(r, "reply")
  /\ whisper_mutex' = None
  /\ response' = [response EXCEPT ![r] = [status |-> 200, of |-> results,
                                          params |-> params]]
  /\ params' = default_params
  /\ UNCHANGED <<server, state, ctx, results, temp_files, input, closed>>

-----------------------------------------------------------------------------
(* /load *)

(* A plausible slip: the state is not set to loading. *)
LoadBeginStaysReady(r) ==
  /\ pc[r] = "lock" /\ input[r].kind = "load"
  /\ whisper_mutex = None
  /\ whisper_mutex' = r
  /\ Goto(r, "check")
  /\ UNCHANGED <<server, shared, input, closed, response>>

(* The lock is taken, the state is set to loading. *)
LoadBegin(r) ==
  /\ pc[r] = "lock" /\ input[r].kind = "load"
  /\ whisper_mutex = None
  /\ whisper_mutex' = r
  /\ state' = "LOADING_MODEL"
  /\ Goto(r, "check")
  /\ UNCHANGED <<server, ctx, results, params, temp_files, input, closed, response>>

(* The request is checked; the context is freed, and its results with it.   *)
LoadFree(r) ==
  /\ pc[r] = "check"
  /\ IF input[r].model \in {"no_field", "missing"}
     THEN Finish(r, 200) /\ UNCHANGED <<ctx, results>>
     ELSE /\ ctx' = None
          /\ results' = None
          /\ Goto(r, "init")
          /\ UNCHANGED <<whisper_mutex, response>>
  /\ UNCHANGED <<server, state, params, temp_files, input, closed>>

(* Without a model the process exits. *)
LoadInit(r) ==
  /\ pc[r] = "init"
  /\ IF input[r].model = "broken"
     THEN server' = "exited" /\ UNCHANGED <<ctx, pc>>
     ELSE ctx' = input[r].model /\ Goto(r, "ready") /\ UNCHANGED server
  /\ UNCHANGED <<state, results, params, temp_files, whisper_mutex, input, closed,
                 response>>

LoadReady(r) ==
  /\ pc[r] = "ready"
  /\ state' = "READY"
  /\ Finish(r, 200)
  /\ UNCHANGED <<server, ctx, results, params, temp_files, input, closed>>

(* /health *)
Health(r) ==
  /\ pc[r] = "health"
  /\ Goto(r, "reply")
  /\ response' = [response EXCEPT ![r].status = IF state = "READY" THEN 200 ELSE 503]
  /\ UNCHANGED <<server, shared, whisper_mutex, input, closed>>

-----------------------------------------------------------------------------
(* signal_handler: the second signal ends the process. *)
Signal ==
  /\ server' = IF server = "listening" THEN "stopping" ELSE "exited"
  /\ UNCHANGED <<shared, whisper_mutex, pc, input, closed, response>>

(* A plausible slip: the context is freed before the handlers have ended. *)
CleanUpEarly ==
  /\ server = "stopping"
  /\ ctx' = None
  /\ server' = "stopped"
  /\ UNCHANGED <<state, results, params, temp_files, whisper_mutex, pc, input,
                 closed, response>>

(* listen_after_bind returns when the threads of the pool have ended; the   *)
(* main thread joins it and clean_up frees the context.                     *)
CleanUp ==
  /\ server = "stopping"
  /\ \A r \in Requests : pc[r] \in {"new", "done"}
  /\ ctx' = None
  /\ server' = "stopped"
  /\ UNCHANGED <<state, results, params, temp_files, whisper_mutex, pc, input,
                 closed, response>>

Handler(r) ==
  \/ InferenceBegin(r) \/ GetReqParameters(r) \/ Convert(r) \/ ReadAudio(r)
  \/ Process(r) \/ Answer(r)
  \/ LoadBegin(r) \/ LoadFree(r) \/ LoadInit(r) \/ LoadReady(r)
  \/ Health(r) \/ Reply(r)

Running == server \in {"listening", "stopping"}

Done == ~Running /\ UNCHANGED vars

Next ==
  \/ /\ Running
     /\ \/ \E r \in Requests :
             \/ \E x \in Inputs : Arrive(r, x)
             \/ Accept(r) \/ Disconnect(r) \/ Handler(r)
        \/ Signal
        \/ CleanUp
  \/ Done

Spec == Init /\ [][Next]_vars

(* Threads run, and the pool takes what is queued; nobody has to send a     *)
(* request or a signal.                                                     *)
Fairness ==
  /\ \A r \in Requests : WF_vars(Running /\ (Accept(r) \/ Handler(r)))
  /\ WF_vars(Running /\ CleanUp)

FairSpec == Spec /\ Fairness

-----------------------------------------------------------------------------
TypeOK ==
  /\ server \in {"listening", "stopping", "stopped", "exited"}
  /\ state \in {"READY", "LOADING_MODEL"}
  /\ ctx \in Models \cup {None}
  /\ {results, whisper_mutex} \subseteq Requests \cup {None}
  /\ params \in [Fields -> Requests \cup {"default", "model"}]
  /\ temp_files \subseteq Requests
  /\ pc \in [Requests -> InHandler \cup {"new", "queued", "done"}]
  /\ \A r \in Requests : input[r] \in Inputs \cup {None}
  /\ closed \subseteq Requests
  /\ \A r \in Requests :
       response[r].status \in {None, 200, 404, 499, 500, 503}

(* A transcription is answered with the results of its own audio, however   *)
(* the handlers of other requests, loads and aborts interleave; only with   *)
(* several processors, and for audio in which VAD finds no speech, may the  *)
(* answer hold what the context had from another request, and that is one   *)
(* that has ended.                                                          *)
ResultsAreOwn ==
  \A r \in Requests :
    LET p == response[r].of
    IN  p \in Requests \ {r} =>
          n_processors > 1 /\ ~input[r].speech /\ response[p].status # None

(* The context is not freed, by /load or by the end of the server, while a  *)
(* handler uses it.                                                         *)
ContextInUse ==
  \A r \in Requests : pc[r] \in {"read", "run", "answer", "ready"} => ctx # None

(* "SERVER_STATE_READY, // Server is ready and model is loaded"             *)
(* (server.cpp:31), although /health reads it without the lock, also        *)
(* between any two steps of /load.                                          *)
ReadyMeansLoaded == Running /\ state = "READY" => ctx # None

Transcribed(r) == response[r].params # None
Failed(r) == response[r].params = None /\ response[r].status # None

(* A transcription is made with the request's own values of the parameters  *)
(* it gives, but for what the model cannot do and for a language that       *)
(* detect_language has replaced; and whatever it finds of another request,  *)
(* detect_language included, is what one that ended without a transcription *)
(* left behind, for only the end of a transcription resets params           *)
(* (server.cpp:1121).                                                       *)
OnlyFailuresLeak ==
  \A r \in Requests : Transcribed(r) =>
    LET used == response[r].params
    IN  \A f \in Fields :
          /\ f \in input[r].fields =>
               \/ used[f] \in {r, "model"}
               \/ f = "language" /\ used[f] = used["detect_language"]
          /\ used[f] \in Requests \ {r} => Failed(used[f])

(* "Result is stored in the default state of the context" (whisper.h:617),  *)
(* from where the server answers it: it does not hold when there are        *)
(* several processors and VAD finds no speech.                              *)
ResultIsStored == \A r \in Requests : response[r].of \in {r, None}

(* A request that a thread has taken is answered, unless the process ends:  *)
(* no path through a handler keeps the lock.                                *)
EveryRequestAnswered ==
  \A r \in Requests :
    pc[r] \in InHandler ~> (pc[r] = "done" \/ server = "exited")

(* A signal stops the server whatever the handlers are doing.               *)
SignalStops == server = "stopping" ~> server \in {"stopped", "exited"}
=============================================================================
