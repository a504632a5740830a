---------------------------- MODULE Server_proof ----------------------------
(***************************************************************************)
(* Proofs about the server for every set of requests, inputs and models,   *)
(* every size of the pool and every set of failures: the types, the        *)
(* exclusion of handlers by whisper_mutex, when a transcription is         *)
(* answered with its own results, that nobody uses a freed context, that a *)
(* server that says it is ready has a model and that only a request that   *)
(* failed leaves parameters to others.                                     *)
(***************************************************************************)
EXTENDS Server, TLAPS

Setters == Requests \cup {"default", "model"}
Statuses == {200, 404, 499, 500, 503}
Responses == [status : Statuses \cup {None}, of : Requests \cup {None},
              params : [Fields -> Setters] \cup {None}]

SharedTypes ==
  /\ server \in {"listening", "stopping", "stopped", "exited"}
  /\ state \in {"READY", "LOADING_MODEL"}
  /\ ctx \in Models \cup {None}
  /\ results \in Requests \cup {None}
  /\ whisper_mutex \in Requests \cup {None}
  /\ params \in [Fields -> Setters]
  /\ temp_files \subseteq Requests
  /\ closed \subseteq Requests
  /\ pc \in [Requests -> InHandler \cup {"new", "queued", "done"}]

(* A request has an input from its arrival on; only a load gets to the      *)
(* check, and only one that may succeed or exit as far as whisper_init.     *)
InputTypes ==
  /\ DOMAIN input = Requests
  /\ \A r \in Requests :
       /\ input[r] \in Inputs \cup {None}
       /\ pc[r] # "new" => input[r] \in Inputs
       /\ pc[r] = "check" => input[r].kind = "load"
       /\ pc[r] = "init" => input[r].kind = "load"
                            /\ input[r].model \in Models \cup {"broken"}

(* A handler that has returned has set a status. *)
ResponseTypes ==
  /\ response \in [Requests -> Responses]
  /\ \A r \in Requests : pc[r] = "reply" => response[r].status \in Statuses

(* Where a handler of /inference or /load holds whisper_mutex. *)
Holding == {"params", "convert", "read", "run", "answer", "check", "init", "ready"}

(* The owner of the mutex is the one handler between its first and its last *)
(* action.                                                                  *)
MutexInv == \A r \in Requests : pc[r] \in Holding <=> whisper_mutex = r

(* The context is there unless its owner is about to load another one, when *)
(* the state says so, or the server has stopped, when no handler is left.   *)
ContextInv ==
  /\ server # "stopped" /\ ctx = None =>
       \E r \in Requests : pc[r] = "init"
  /\ \A r \in Requests :
       pc[r] \in {"check", "init", "ready"} => state = "LOADING_MODEL"
  /\ server = "stopped" => \A r \in Requests : pc[r] \in {"new", "done"}

(* Nothing is in the response of a handler that has not returned. *)
PendingInv ==
  \A r \in Requests : pc[r] \notin {"reply", "done"} =>
    response[r].of = None /\ response[r].status = None /\ response[r].params = None

(* The one case in which a handler finds, or has answered, what the context *)
(* holds of another request p: p has ended, and VAD found no speech.        *)
Stale(r, p) ==
  n_processors > 1 /\ ~input[r].speech /\ response[p].status # None

(* What the context holds is of a request that has its results there and is *)
(* about to answer, or that has ended; from the end of                      *)
(* whisper_full_parallel to the response they are of the handler that owns  *)
(* the context, or stale.                                                   *)
ResultsInv ==
  /\ results # None => pc[results] = "answer" \/ response[results].status # None
  /\ \A r \in Requests :
       /\ pc[r] = "answer" /\ results \notin {r, None} => Stale(r, results)
       /\ response[r].of \notin {r, None} => Stale(r, response[r].of)

IInv ==
  /\ SharedTypes /\ InputTypes /\ ResponseTypes
  /\ MutexInv /\ ContextInv /\ PendingInv /\ ResultsInv

-----------------------------------------------------------------------------
(* Setting one status keeps the responses well-typed. *)
LEMMA StatusTypes ==
  ASSUME NEW R \in [Requests -> Responses], NEW r \in Requests,
         NEW s \in Statuses
  PROVE  [R EXCEPT ![r].status = s] \in [Requests -> Responses]
<1>1. R[r] \in Responses
  OBVIOUS
<1>2. [R[r] EXCEPT !.status = s] \in Responses
  BY <1>1 DEF Responses
<1> QED
  BY <1>2

LEMMA InitIInv == Init => IInv
<1> SUFFICES ASSUME Init PROVE IInv
  OBVIOUS
<1> USE ModelsAssumption DEF Init
<1>1. SharedTypes
  BY DEF SharedTypes, default_params, Setters
<1>2. InputTypes
  BY DEF InputTypes
<1>3. ResponseTypes
  BY DEF ResponseTypes, Responses, NoResponse, default_params, Setters
<1>4. MutexInv
  BY DEF MutexInv, Holding
<1>5. ContextInv
  BY DEF ContextInv
<1>6. PendingInv
  BY DEF PendingInv, NoResponse
<1>7. ResultsInv
  BY DEF ResultsInv, NoResponse, Stale
<1> QED
  BY <1>1, <1>2, <1>3, <1>4, <1>5, <1>6, <1>7 DEF IInv

(* A connection arrives. *)
LEMMA ArriveIInv ==
  ASSUME IInv, Running, NEW r \in Requests, NEW x \in Inputs, Arrive(r, x)
  PROVE  IInv'
<1> USE ModelsAssumption DEF IInv, Arrive, Goto, shared
<1>1. SharedTypes'
  BY DEF SharedTypes
<1>2. InputTypes'
  BY InputsAssumption DEF InputTypes
<1>3. ResponseTypes'
  BY DEF ResponseTypes
<1>4. MutexInv'
  BY DEF MutexInv, Holding
<1>5. ContextInv'
  BY DEF ContextInv
<1>6. PendingInv'
  BY DEF PendingInv
<1>7. ResultsInv'
  BY DEF ResultsInv, Stale, PendingInv, MutexInv, Holding, SharedTypes, ResponseTypes,
     Responses
<1> QED
  BY <1>1, <1>2, <1>3, <1>4, <1>5, <1>6, <1>7

(* A thread of the pool takes it. *)
LEMMA AcceptIInv ==
  ASSUME IInv, Running, NEW r \in Requests, Accept(r)
  PROVE  IInv'
<1> USE ModelsAssumption DEF IInv, Accept, Goto, shared
<1>1. SharedTypes'
  BY DEF SharedTypes, InHandler
<1>2. InputTypes'
  BY InputsAssumption DEF InputTypes
<1>3. ResponseTypes'
  BY DEF ResponseTypes
<1>4. MutexInv'
  BY DEF MutexInv, Holding
<1>5. ContextInv'
  BY DEF ContextInv
<1>6. PendingInv'
  BY DEF PendingInv
<1>7. ResultsInv'
  BY DEF ResultsInv, Stale, PendingInv, MutexInv, Holding, SharedTypes, ResponseTypes,
     Responses
<1> QED
  BY <1>1, <1>2, <1>3, <1>4, <1>5, <1>6, <1>7

(* A client goes away. *)
LEMMA DisconnectIInv ==
  ASSUME IInv, Running, NEW r \in Requests, Disconnect(r)
  PROVE  IInv'
<1> USE ModelsAssumption DEF IInv, Disconnect, shared
<1>1. SharedTypes'
  BY DEF SharedTypes
<1>2. InputTypes'
  BY InputsAssumption DEF InputTypes
<1>3. ResponseTypes'
  BY DEF ResponseTypes
<1>4. MutexInv'
  BY DEF MutexInv
<1>5. ContextInv'
  BY DEF ContextInv
<1>6. PendingInv'
  BY DEF PendingInv
<1>7. ResultsInv'
  BY DEF ResultsInv, Stale, PendingInv, MutexInv, Holding, SharedTypes, ResponseTypes,
     Responses
<1> QED
  BY <1>1, <1>2, <1>3, <1>4, <1>5, <1>6, <1>7

(* The response passes the error handler. *)
LEMMA ReplyIInv ==
  ASSUME IInv, Running, NEW r \in Requests, Reply(r)
  PROVE  IInv'
<1> USE ModelsAssumption DEF IInv, Reply, Goto, shared
<1>1. SharedTypes'
  BY DEF SharedTypes
<1>2. InputTypes'
  BY InputsAssumption DEF InputTypes
<1>3. ResponseTypes'
  <2>1. ErrorHandler(response[r].status) \in Statuses
    BY DEF ErrorHandler, ResponseTypes, Statuses
  <2>2. response' = [response EXCEPT ![r].status = ErrorHandler(response[r].status)]
    OBVIOUS
  <2>3. response' \in [Requests -> Responses]
    BY <2>1, <2>2, StatusTypes DEF ResponseTypes
  <2> QED
    BY <2>1, <2>2, <2>3 DEF ResponseTypes
<1>4. MutexInv'
  BY DEF MutexInv, Holding
<1>5. ContextInv'
  BY DEF ContextInv
<1>6. PendingInv'
  BY DEF PendingInv
<1>7. ResultsInv'
  <2>1. \A s \in Requests :
          /\ response'[s].of = response[s].of
          /\ response[s].status # None => response'[s].status # None
    BY DEF ErrorHandler, ResponseTypes, Responses
  <2>2. \A s \in Requests : pc'[s] = "answer" <=> pc[s] = "answer"
    BY DEF SharedTypes
  <2> QED
    BY <2>1, <2>2 DEF ResultsInv, Stale, SharedTypes
<1> QED
  BY <1>1, <1>2, <1>3, <1>4, <1>5, <1>6, <1>7

(* An inference takes the mutex. *)
LEMMA InferenceBeginIInv ==
  ASSUME IInv, Running, NEW r \in Requests, InferenceBegin(r)
  PROVE  IInv'
<1> USE ModelsAssumption DEF IInv, InferenceBegin, Goto, Finish, shared
<1>1. SharedTypes'
  BY DEF SharedTypes, InHandler
<1>2. InputTypes'
  BY InputsAssumption DEF SharedTypes, InputTypes
<1>3. ResponseTypes'
  <2>1. \/ response' = response /\ pc'[r] # "reply"
        \/ \E s \in Statuses : response' = [response EXCEPT ![r].status = s]
    BY DEF SharedTypes, Statuses
  <2>2. response' \in [Requests -> Responses]
    BY <2>1, StatusTypes DEF ResponseTypes
  <2> QED
    BY <2>1, <2>2 DEF SharedTypes, ResponseTypes, Responses
<1>4. MutexInv'
  BY DEF MutexInv, Holding, SharedTypes
<1>5. ContextInv'
  BY DEF ContextInv, SharedTypes
<1>6. PendingInv'
  BY DEF PendingInv, SharedTypes, ResponseTypes
<1>7. ResultsInv'
  BY DEF ResultsInv, Stale, PendingInv, MutexInv, Holding, SharedTypes, ResponseTypes,
     Responses
<1> QED
  BY <1>1, <1>2, <1>3, <1>4, <1>5, <1>6, <1>7

(* It reads its fields, or throws. *)
LEMMA GetReqParametersIInv ==
  ASSUME IInv, Running, NEW r \in Requests, GetReqParameters(r)
  PROVE  IInv'
<1> USE ModelsAssumption DEF IInv, GetReqParameters, Goto, Finish, shared
<1>1. SharedTypes'
  BY DEF SharedTypes, InHandler, Setters, Assign
<1>2. InputTypes'
  BY InputsAssumption DEF SharedTypes, InputTypes
<1>3. ResponseTypes'
  <2>1. \/ response' = response /\ pc'[r] # "reply"
        \/ \E s \in Statuses : response' = [response EXCEPT ![r].status = s]
    BY DEF SharedTypes, Statuses
  <2>2. response' \in [Requests -> Responses]
    BY <2>1, StatusTypes DEF ResponseTypes
  <2> QED
    BY <2>1, <2>2 DEF SharedTypes, ResponseTypes, Responses
<1>4. MutexInv'
  BY DEF MutexInv, Holding, SharedTypes
<1>5. ContextInv'
  BY DEF ContextInv, SharedTypes
<1>6. PendingInv'
  BY DEF PendingInv, SharedTypes, ResponseTypes
<1>7. ResultsInv'
  BY DEF ResultsInv, Stale, PendingInv, MutexInv, Holding, SharedTypes, ResponseTypes,
     Responses
<1> QED
  BY <1>1, <1>2, <1>3, <1>4, <1>5, <1>6, <1>7

(* It converts its audio. *)
LEMMA ConvertIInv ==
  ASSUME IInv, Running, NEW r \in Requests, Convert(r)
  PROVE  IInv'
<1> USE ModelsAssumption DEF IInv, Convert, Goto, Finish, shared
<1>1. SharedTypes'
  BY DEF SharedTypes, InHandler
<1>2. InputTypes'
  BY InputsAssumption DEF SharedTypes, InputTypes
<1>3. ResponseTypes'
  <2>1. \/ response' = response /\ pc'[r] # "reply"
        \/ \E s \in Statuses : response' = [response EXCEPT ![r].status = s]
    BY DEF SharedTypes, Statuses
  <2>2. response' \in [Requests -> Responses]
    BY <2>1, StatusTypes DEF ResponseTypes
  <2> QED
    BY <2>1, <2>2 DEF SharedTypes, ResponseTypes, Responses
<1>4. MutexInv'
  BY DEF MutexInv, Holding, SharedTypes
<1>5. ContextInv'
  BY DEF ContextInv, SharedTypes
<1>6. PendingInv'
  BY DEF PendingInv, SharedTypes, ResponseTypes
<1>7. ResultsInv'
  BY DEF ResultsInv, Stale, PendingInv, MutexInv, Holding, SharedTypes, ResponseTypes,
     Responses
<1> QED
  BY <1>1, <1>2, <1>3, <1>4, <1>5, <1>6, <1>7

(* Whatever is overridden before the inference, a field is what it was, or  *)
(* what the model can do, or a language that detect_language replaces.      *)
LEMMA Overridden ==
  ASSUME params \in [Fields -> Setters], NEW p \in Override
  PROVE  /\ p \in [Fields -> Setters]
         /\ p["detect_language"] = params["detect_language"]
         /\ \A f \in Fields :
              \/ p[f] \in {params[f], "model"}
              \/ f = "language" /\ p[f] = p["detect_language"]
<1>1. "detect_language" \in Fields
  BY DEF Fields, FieldOrder, Range
<1>2. "model" \in Setters
  BY DEF Setters
<1>3. \A q \in ForModel :
        /\ q \in [Fields -> Setters]
        /\ q["detect_language"] = params["detect_language"]
        /\ \A f \in Fields : q[f] \in {params[f], "model"}
  <2>1. ASSUME NEW q \in ForModel PROVE q = params \/
          q = [params EXCEPT !["language"] = "model", !["translate"] = "model"]
    BY <2>1 DEF ForModel
  <2>2. ASSUME NEW q, q = [params EXCEPT !["language"] = "model", !["translate"] = "model"]
        PROVE  /\ q \in [Fields -> Setters]
               /\ q["detect_language"] = params["detect_language"]
               /\ \A f \in Fields : q[f] \in {params[f], "model"}
    BY <1>1, <1>2, <2>2
  <2> QED
    BY <2>1, <2>2
<1>4. CASE p \in ForModel
  BY <1>3, <1>4
<1>5. ASSUME NEW q \in ForModel, p = [q EXCEPT !["language"] = q["detect_language"]]
      PROVE  /\ p \in [Fields -> Setters]
             /\ p["detect_language"] = q["detect_language"]
             /\ \A f \in Fields : f # "language" => p[f] = q[f]
             /\ "language" \in Fields => p["language"] = p["detect_language"]
  BY <1>1, <1>3, <1>5
<1> QED
  BY <1>3, <1>4, <1>5 DEF Override

(* It reads its audio. *)
LEMMA ReadAudioIInv ==
  ASSUME IInv, Running, NEW r \in Requests, ReadAudio(r)
  PROVE  IInv'
<1> USE ModelsAssumption DEF IInv, ReadAudio, Goto, Finish, shared
<1>1. SharedTypes'
  <2>1. params' \in [Fields -> Setters]
    BY Overridden DEF SharedTypes
  <2> QED
    BY <2>1 DEF SharedTypes, InHandler
<1>2. InputTypes'
  BY InputsAssumption DEF SharedTypes, InputTypes
<1>3. ResponseTypes'
  <2>1. \/ response' = response /\ pc'[r] # "reply"
        \/ \E s \in Statuses : response' = [response EXCEPT ![r].status = s]
    BY DEF SharedTypes, Statuses
  <2>2. response' \in [Requests -> Responses]
    BY <2>1, StatusTypes DEF ResponseTypes
  <2> QED
    BY <2>1, <2>2 DEF SharedTypes, ResponseTypes, Responses
<1>4. MutexInv'
  BY DEF MutexInv, Holding, SharedTypes
<1>5. ContextInv'
  BY DEF ContextInv, SharedTypes
<1>6. PendingInv'
  BY DEF PendingInv, SharedTypes, ResponseTypes
<1>7. ResultsInv'
  BY DEF ResultsInv, Stale, PendingInv, MutexInv, Holding, SharedTypes, ResponseTypes,
     Responses
<1> QED
  BY <1>1, <1>2, <1>3, <1>4, <1>5, <1>6, <1>7

(* It transcribes, which no other handler can undo. *)
LEMMA ProcessIInv ==
  ASSUME IInv, Running, NEW r \in Requests, Process(r)
  PROVE  IInv'
<1> USE ModelsAssumption DEF IInv, Process, Goto, Finish, shared
<1>0. results' \in {r, results}
  BY DEF AfterSuccess
<1>1. SharedTypes'
  BY <1>0 DEF SharedTypes, InHandler
<1>2. InputTypes'
  BY InputsAssumption DEF SharedTypes, InputTypes
<1>3. ResponseTypes'
  <2>1. \/ response' = response /\ pc'[r] # "reply"
        \/ \E s \in Statuses : response' = [response EXCEPT ![r].status = s]
    BY DEF SharedTypes, Statuses
  <2>2. response' \in [Requests -> Responses]
    BY <2>1, StatusTypes DEF ResponseTypes
  <2> QED
    BY <2>1, <2>2 DEF SharedTypes, ResponseTypes, Responses
<1>4. MutexInv'
  BY DEF MutexInv, Holding, SharedTypes
<1>5. ContextInv'
  BY DEF ContextInv, SharedTypes
<1>6. PendingInv'
  BY DEF PendingInv, SharedTypes, ResponseTypes
<1>7. ResultsInv'
  <2>1. \A s \in Requests :
          /\ response'[s].of = response[s].of
          /\ response[s].status # None => response'[s].status # None
    BY DEF ResponseTypes, Responses
  <2>2. \A s \in Requests : pc[s] = "answer" => s = r
    BY DEF MutexInv, Holding
  <2>3. \A s \in Requests : pc'[s] = "answer" => s = r
    BY <2>2 DEF SharedTypes
  <2>4. pc[r] # "answer"
    OBVIOUS
  <2>5. pc'[r] = "answer" \/ response'[r].status # None
    BY DEF SharedTypes, ResponseTypes, Responses
  <2>6. results # None => response[results].status # None
    BY <2>2, <2>4 DEF ResultsInv, SharedTypes
  <2>7. results' \in {r, results}
    BY <1>0
  <2>8. pc'[r] = "answer" =>
          \/ results' = r
          \/ results' = results /\ n_processors > 1 /\ ~input[r].speech
    <3>1. n_processors # 1 => n_processors > 1
      BY ServerAssumption
    <3>2. CASE results' = r
      BY <3>2
    <3>3. CASE results' \in AfterSuccess(r)
      BY <3>1, <3>3 DEF AfterSuccess
    <3>4. CASE pc' = [pc EXCEPT ![r] = "reply"]
      BY ONLY <3>4, SharedTypes DEF SharedTypes
    <3> QED
      BY <3>2, <3>3, <3>4
  <2>9. results' # None => pc'[results'] = "answer" \/ response'[results'].status # None
    BY <2>1, <2>5, <2>6, <2>7 DEF SharedTypes
  <2>10. ASSUME NEW s \in Requests, pc'[s] = "answer", results' \notin {s, None}
         PROVE  Stale(s, results)'
    BY <2>1, <2>3, <2>6, <2>8, <2>10 DEF Stale, SharedTypes
  <2>11. ASSUME NEW s \in Requests, response'[s].of \notin {s, None}
         PROVE  Stale(s, response[s].of)'
    <3>1. response[s].of \in Requests
      BY <2>1, <2>11 DEF ResponseTypes, Responses
    <3> QED
      BY <2>1, <2>11, <3>1 DEF Stale, ResultsInv
  <2> QED
    BY <2>9, <2>10, <2>11 DEF ResultsInv
<1> QED
  BY <1>1, <1>2, <1>3, <1>4, <1>5, <1>6, <1>7

(* It answers. *)
LEMMA AnswerIInv ==
  ASSUME IInv, Running, NEW r \in Requests, Answer(r)
  PROVE  IInv'
<1> USE ModelsAssumption DEF IInv, Answer, Goto, shared
<1>1. SharedTypes'
  BY DEF SharedTypes, InHandler, Setters, default_params
<1>2. InputTypes'
  BY InputsAssumption DEF InputTypes
<1>3. ResponseTypes'
  BY DEF SharedTypes, ResponseTypes, Responses, Statuses
<1>4. MutexInv'
  BY DEF MutexInv, Holding, SharedTypes
<1>5. ContextInv'
  BY DEF ContextInv
<1>6. PendingInv'
  BY DEF PendingInv, SharedTypes
<1>7. ResultsInv'
  BY DEF ResultsInv, Stale, PendingInv, MutexInv, Holding, SharedTypes, ResponseTypes,
     Responses
<1> QED
  BY <1>1, <1>2, <1>3, <1>4, <1>5, <1>6, <1>7

(* A load takes the mutex and says so. *)
LEMMA LoadBeginIInv ==
  ASSUME IInv, Running, NEW r \in Requests, LoadBegin(r)
  PROVE  IInv'
<1> USE ModelsAssumption DEF IInv, LoadBegin, Goto, Finish, shared
<1>1. SharedTypes'
  BY DEF SharedTypes, InHandler
<1>2. InputTypes'
  BY InputsAssumption DEF SharedTypes, InputTypes, IsInput
<1>3. ResponseTypes'
  BY DEF ResponseTypes
<1>4. MutexInv'
  BY DEF MutexInv, Holding, SharedTypes
<1>5. ContextInv'
  BY DEF ContextInv, SharedTypes
<1>6. PendingInv'
  BY DEF PendingInv, SharedTypes, ResponseTypes
<1>7. ResultsInv'
  BY DEF ResultsInv, Stale, PendingInv, MutexInv, Holding, SharedTypes, ResponseTypes,
     Responses
<1> QED
  BY <1>1, <1>2, <1>3, <1>4, <1>5, <1>6, <1>7

(* It frees the context when it owns the mutex. *)
LEMMA LoadFreeIInv ==
  ASSUME IInv, Running, NEW r \in Requests, LoadFree(r)
  PROVE  IInv'
<1> USE ModelsAssumption DEF IInv, LoadFree, Goto, Finish, shared
<1>1. SharedTypes'
  BY DEF SharedTypes, InHandler
<1>2. InputTypes'
  BY InputsAssumption DEF SharedTypes, InputTypes, IsInput
<1>3. ResponseTypes'
  <2>1. \/ response' = response /\ pc'[r] # "reply"
        \/ \E s \in Statuses : response' = [response EXCEPT ![r].status = s]
    BY DEF SharedTypes, Statuses
  <2>2. response' \in [Requests -> Responses]
    BY <2>1, StatusTypes DEF ResponseTypes
  <2> QED
    BY <2>1, <2>2 DEF SharedTypes, ResponseTypes, Responses
<1>4. MutexInv'
  BY DEF MutexInv, Holding, SharedTypes
<1>5. ContextInv'
  BY DEF ContextInv, SharedTypes, MutexInv, Holding
<1>6. PendingInv'
  BY DEF PendingInv, SharedTypes, ResponseTypes
<1>7. ResultsInv'
  BY DEF ResultsInv, Stale, PendingInv, MutexInv, Holding, SharedTypes, ResponseTypes,
     Responses
<1> QED
  BY <1>1, <1>2, <1>3, <1>4, <1>5, <1>6, <1>7

(* It brings another one. *)
LEMMA LoadInitIInv ==
  ASSUME IInv, Running, NEW r \in Requests, LoadInit(r)
  PROVE  IInv'
<1> USE ModelsAssumption DEF IInv, LoadInit, Goto, Finish, shared
<1>1. SharedTypes'
  BY DEF SharedTypes, InHandler, InputTypes
<1>2. InputTypes'
  BY InputsAssumption DEF SharedTypes, InputTypes
<1>3. ResponseTypes'
  BY DEF ResponseTypes, SharedTypes
<1>4. MutexInv'
  BY SMTT(30) DEF MutexInv, Holding, SharedTypes
<1>5. ContextInv'
  BY DEF ContextInv, MutexInv, Holding, SharedTypes, InputTypes
<1>6. PendingInv'
  BY DEF PendingInv, SharedTypes, ResponseTypes
<1>7. ResultsInv'
  BY DEF ResultsInv, Stale, PendingInv, MutexInv, Holding, SharedTypes, ResponseTypes,
     Responses
<1> QED
  BY <1>1, <1>2, <1>3, <1>4, <1>5, <1>6, <1>7

(* Once there is a context, it is ready. *)
LEMMA LoadReadyIInv ==
  ASSUME IInv, Running, NEW r \in Requests, LoadReady(r)
  PROVE  IInv'
<1> USE ModelsAssumption DEF IInv, LoadReady, Goto, Finish, shared
<1>1. SharedTypes'
  BY DEF SharedTypes, InHandler
<1>2. InputTypes'
  BY InputsAssumption DEF SharedTypes, InputTypes, IsInput
<1>3. ResponseTypes'
  <2>1. 200 \in Statuses
    BY DEF Statuses
  <2>2. response' \in [Requests -> Responses]
    BY <2>1, StatusTypes DEF ResponseTypes
  <2> QED
    BY <2>1, <2>2 DEF SharedTypes, ResponseTypes, Responses
<1>4. MutexInv'
  BY DEF MutexInv, Holding, SharedTypes
<1>5. ContextInv'
  BY DEF ContextInv, SharedTypes, MutexInv, Holding
<1>6. PendingInv'
  BY DEF PendingInv, SharedTypes, ResponseTypes
<1>7. ResultsInv'
  BY DEF ResultsInv, Stale, PendingInv, MutexInv, Holding, SharedTypes, ResponseTypes,
     Responses
<1> QED
  BY <1>1, <1>2, <1>3, <1>4, <1>5, <1>6, <1>7

(* The health check reads the state only. *)
LEMMA HealthIInv ==
  ASSUME IInv, Running, NEW r \in Requests, Health(r)
  PROVE  IInv'
<1> USE ModelsAssumption DEF IInv, Health, Goto, shared
<1>1. SharedTypes'
  BY DEF SharedTypes, InHandler
<1>2. InputTypes'
  BY InputsAssumption DEF InputTypes
<1>3. ResponseTypes'
  <2>1. PICK s \in Statuses : response' = [response EXCEPT ![r].status = s]
    <3>1. CASE state = "READY"
      BY <3>1 DEF Statuses
    <3>2. CASE state # "READY"
      BY <3>2 DEF Statuses
    <3> QED
      BY <3>1, <3>2, ZenonT(60)
  <2>2. response' \in [Requests -> Responses]
    BY <2>1, StatusTypes DEF ResponseTypes
  <2> QED
    BY <2>1, <2>2 DEF ResponseTypes, Responses
<1>4. MutexInv'
  BY DEF MutexInv, Holding
<1>5. ContextInv'
  BY DEF ContextInv
<1>6. PendingInv'
  BY DEF PendingInv, SharedTypes
<1>7. ResultsInv'
  BY DEF ResultsInv, Stale, PendingInv, MutexInv, Holding, SharedTypes, ResponseTypes,
     Responses
<1> QED
  BY <1>1, <1>2, <1>3, <1>4, <1>5, <1>6, <1>7

(* A signal changes nothing but the server's own state. *)
LEMMA SignalIInv ==
  ASSUME IInv, Running, Signal
  PROVE  IInv'
<1> USE DEF IInv, Signal, shared
<1>1. SharedTypes' /\ InputTypes' /\ ResponseTypes'
  BY DEF SharedTypes, InputTypes, ResponseTypes
<1>2. MutexInv' /\ PendingInv' /\ ResultsInv'
  BY DEF MutexInv, PendingInv, ResultsInv, Stale
<1>3. ContextInv'
  BY DEF ContextInv, Running
<1> QED
  BY <1>1, <1>2, <1>3

(* The context is freed when no handler is left. *)
LEMMA CleanUpIInv ==
  ASSUME IInv, Running, CleanUp
  PROVE  IInv'
<1> USE DEF IInv, CleanUp
<1>1. SharedTypes' /\ InputTypes' /\ ResponseTypes'
  BY DEF SharedTypes, InputTypes, ResponseTypes
<1>2. MutexInv' /\ PendingInv' /\ ResultsInv'
  BY DEF MutexInv, PendingInv, ResultsInv, Stale
<1>3. ContextInv'
  BY DEF ContextInv
<1> QED
  BY <1>1, <1>2, <1>3

LEMMA NextIInv == IInv /\ [Next]_vars => IInv'
<1> SUFFICES ASSUME IInv, [Next]_vars PROVE IInv'
  OBVIOUS
<1>1. ASSUME Running, NEW r \in Requests, NEW x \in Inputs, Arrive(r, x)
      PROVE  IInv'
  BY <1>1, ArriveIInv
<1>2. ASSUME Running, NEW r \in Requests, Accept(r) \/ Disconnect(r)
      PROVE  IInv'
  BY <1>2, AcceptIInv, DisconnectIInv
<1>3. ASSUME Running, NEW r \in Requests, Handler(r)
      PROVE  IInv'
   BY <1>3, InferenceBeginIInv, GetReqParametersIInv, ConvertIInv,
     ReadAudioIInv, ProcessIInv, AnswerIInv, LoadBeginIInv, LoadFreeIInv, LoadInitIInv,
     LoadReadyIInv, HealthIInv, ReplyIInv DEF Handler
<1>4. CASE Running /\ (Signal \/ CleanUp)
  BY <1>4, SignalIInv, CleanUpIInv
<1>5. CASE UNCHANGED vars
   BY <1>5 DEF vars, shared, IInv, SharedTypes, InputTypes, ResponseTypes,
     MutexInv, ContextInv, PendingInv, ResultsInv, Stale
<1> QED
  BY <1>1, <1>2, <1>3, <1>4, <1>5 DEF Next, Done

(* The invariant gives what the runs check. *)
LEMMA IInvSafe == IInv => TypeOK /\ ResultsAreOwn /\ ContextInUse /\ ReadyMeansLoaded
<1> SUFFICES ASSUME IInv PROVE TypeOK /\ ResultsAreOwn /\ ContextInUse /\ ReadyMeansLoaded
  OBVIOUS
<1> USE DEF IInv
<1>1. \A r \in Requests : response[r].status \in {None, 200, 404, 499, 500, 503}
  BY DEF ResponseTypes, Responses, Statuses
<1>2. TypeOK
  BY <1>1 DEF TypeOK, SharedTypes, InputTypes, Setters
<1>3. ResultsAreOwn
  BY ModelsAssumption DEF ResultsAreOwn, ResultsInv, Stale
<1>4. ContextInUse
  BY DEF ContextInUse, ContextInv, MutexInv, Holding
<1>5. ReadyMeansLoaded
  BY DEF ReadyMeansLoaded, ContextInv, Running
<1> QED
  BY <1>2, <1>3, <1>4, <1>5

(* IInv is an invariant of the server. *)
THEOREM ServerInvariant == Spec => []IInv
<1> QED
  BY InitIInv, NextIInv, PTL DEF Spec

(* Every variable keeps its type, among them the status of every response.  *)
THEOREM ServerTypeCorrect == Spec => []TypeOK
<1> QED
  BY ServerInvariant, IInvSafe, PTL

(* At most one handler of /inference and /load is between its first and its *)
(* last action (whisper_mutex, server.cpp:807 and 1124).                    *)
THEOREM MutualExclusion ==
  Spec => [](\A r, s \in Requests : pc[r] \in Holding /\ pc[s] \in Holding => r = s)
<1>1. IInv => \A r, s \in Requests : pc[r] \in Holding /\ pc[s] \in Holding => r = s
  BY DEF IInv, MutexInv
<1> QED
  BY <1>1, ServerInvariant, PTL

(* A transcription is answered with the results of its own audio, whatever  *)
(* the other handlers do between whisper_full_parallel and the response,    *)
(* unless there are several processors and VAD may have found no speech in  *)
(* it (whisper.cpp:7797 leaves the results as they are); then they are its  *)
(* own or those of a request that has ended.                                *)
THEOREM ResultsSafety == Spec => []ResultsAreOwn
<1> QED
  BY ServerInvariant, IInvSafe, PTL

(* No handler uses a context that /load or the end of the server has freed. *)
THEOREM ContextSafety == Spec => []ContextInUse
<1> QED
  BY ServerInvariant, IInvSafe, PTL

(* What /health reads without the mutex is right about the model.           *)
THEOREM ReadySafety == Spec => []ReadyMeansLoaded
<1> QED
  BY ServerInvariant, IInvSafe, PTL

-----------------------------------------------------------------------------
(* The parameters of a transcription are the request's own where it gives   *)
(* them, and only requests that ended without a transcription leave         *)
(* parameters to others.                                                    *)

(* Whoever has set a parameter is the handler that owns the mutex or has    *)
(* ended without a transcription.                                           *)
SetterInv ==
  \A f \in Fields :
    params[f] \in Requests => pc[params[f]] \in Holding \/ Failed(params[f])

(* From get_req_parameters to the response the handler's own fields are its *)
(* own, or forced by the model, or by a detected language.                  *)
OwnFieldsInv ==
  \A r \in Requests : pc[r] \in {"convert", "read", "run", "answer"} =>
    \A f \in Fields : f \in input[r].fields =>
      \/ params[f] \in {r, "model"}
      \/ f = "language" /\ params[f] = params["detect_language"]

LeakInv == SetterInv /\ OwnFieldsInv /\ OnlyFailuresLeak

(* Setting a status disturbs nobody's transcription. *)
LEMMA StatusKeeps ==
  ASSUME OnlyFailuresLeak, input' = input,
         \A s \in Requests :
           /\ response'[s].of = response[s].of
           /\ response'[s].params = response[s].params
           /\ response[s].status # None => response'[s].status # None
  PROVE  OnlyFailuresLeak'
BY DEF OnlyFailuresLeak, Transcribed, Failed, Transcribed, Failed

LEMMA InitLeakInv == Init => LeakInv
<1> SUFFICES ASSUME Init PROVE LeakInv
  OBVIOUS
<1> USE ModelsAssumption, RequestsAssumption DEF Init, default_params,
   NoResponse
<1>1. SetterInv
  BY DEF SetterInv
<1>2. OwnFieldsInv
  BY DEF OwnFieldsInv
<1>3. OnlyFailuresLeak
  BY DEF OnlyFailuresLeak, Transcribed, Failed, Transcribed, Failed
<1> QED
  BY <1>1, <1>2, <1>3 DEF LeakInv

(* A connection arrives: nobody has answered it yet. *)
LEMMA ArriveLeakInv ==
  ASSUME IInv, LeakInv, Running, NEW r \in Requests, NEW x \in Inputs, Arrive(r, x)
  PROVE  LeakInv'
<1> USE ModelsAssumption, RequestsAssumption DEF IInv, LeakInv, Arrive, Goto,
   shared
<1>1. SetterInv'
  BY DEF SetterInv, Failed, Holding
<1>2. OwnFieldsInv'
  BY DEF OwnFieldsInv
<1>3. OnlyFailuresLeak'
  BY DEF OnlyFailuresLeak, Transcribed, Failed, PendingInv
<1> QED
  BY <1>1, <1>2, <1>3

(* A thread of the pool takes it. *)
LEMMA AcceptLeakInv ==
  ASSUME IInv, LeakInv, Running, NEW r \in Requests, Accept(r)
  PROVE  LeakInv'
<1> USE ModelsAssumption, RequestsAssumption DEF IInv, LeakInv, Accept, Goto,
   shared
<1>1. SetterInv'
  BY DEF SetterInv, Failed, Holding
<1>2. OwnFieldsInv'
  BY DEF OwnFieldsInv
<1>3. OnlyFailuresLeak'
  BY DEF OnlyFailuresLeak, Transcribed, Failed, Transcribed, Failed
<1> QED
  BY <1>1, <1>2, <1>3

(* A client goes away. *)
LEMMA DisconnectLeakInv ==
  ASSUME IInv, LeakInv, Running, NEW r \in Requests, Disconnect(r)
  PROVE  LeakInv'
<1> USE ModelsAssumption, RequestsAssumption DEF IInv, LeakInv, Disconnect,
   shared
<1>1. SetterInv'
  BY DEF SetterInv, Failed
<1>2. OwnFieldsInv'
  BY DEF OwnFieldsInv
<1>3. OnlyFailuresLeak'
  BY DEF OnlyFailuresLeak, Transcribed, Failed, Transcribed, Failed
<1> QED
  BY <1>1, <1>2, <1>3

(* The error handler replaces a status by another one. *)
LEMMA ReplyLeakInv ==
  ASSUME IInv, LeakInv, Running, NEW r \in Requests, Reply(r)
  PROVE  LeakInv'
<1> USE ModelsAssumption, RequestsAssumption DEF IInv, LeakInv, Reply, Goto,
   shared
<1>1. SetterInv'
  BY DEF SetterInv, Failed, Holding, ErrorHandler
<1>2. OwnFieldsInv'
  BY DEF OwnFieldsInv
<1>3. OnlyFailuresLeak'
  BY DEF OnlyFailuresLeak, Transcribed, Failed, ErrorHandler
<1> QED
  BY <1>1, <1>2, <1>3

(* An inference takes the mutex. *)
LEMMA InferenceBeginLeakInv ==
  ASSUME IInv, LeakInv, Running, NEW r \in Requests, InferenceBegin(r)
  PROVE  LeakInv'
<1> USE ModelsAssumption, RequestsAssumption DEF IInv, LeakInv,
   InferenceBegin, Goto, Finish, shared
<1>1. SetterInv'
  BY DEF SetterInv, Failed, ResponseTypes, Responses, MutexInv
<1>2. OwnFieldsInv'
  BY DEF OwnFieldsInv, SharedTypes
<1>3. OnlyFailuresLeak'
  <2>1. \A s \in Requests :
          /\ response'[s].of = response[s].of
          /\ response'[s].params = response[s].params
          /\ response[s].status # None => response'[s].status # None
    BY DEF ResponseTypes, Responses
  <2> QED
    BY <2>1, StatusKeeps
<1> QED
  BY <1>1, <1>2, <1>3

(* It sets its own fields, or some of them when it throws. *)
LEMMA GetReqParametersLeakInv ==
  ASSUME IInv, LeakInv, Running, NEW r \in Requests, GetReqParameters(r)
  PROVE  LeakInv'
<1> USE ModelsAssumption, RequestsAssumption DEF IInv, LeakInv,
   GetReqParameters, Goto, Finish, shared
<1>1. SetterInv'
   BY DEF SetterInv, PendingInv, Failed, SharedTypes, ResponseTypes,
     Responses, Holding, Assign
<1>2. OwnFieldsInv'
  BY DEF OwnFieldsInv, SharedTypes, MutexInv, Holding, Assign
<1>3. OnlyFailuresLeak'
  <2>1. \A s \in Requests :
          /\ response'[s].of = response[s].of
          /\ response'[s].params = response[s].params
          /\ response[s].status # None => response'[s].status # None
    BY DEF ResponseTypes, Responses
  <2> QED
    BY <2>1, StatusKeeps
<1> QED
  BY <1>1, <1>2, <1>3

(* It converts its audio. *)
LEMMA ConvertLeakInv ==
  ASSUME IInv, LeakInv, Running, NEW r \in Requests, Convert(r)
  PROVE  LeakInv'
<1> USE ModelsAssumption, RequestsAssumption DEF IInv, LeakInv, Convert, Goto,
   Finish, shared
<1>1. SetterInv'
   BY DEF SetterInv, PendingInv, Failed, SharedTypes, ResponseTypes,
     Responses, Holding
<1>2. OwnFieldsInv'
  BY DEF OwnFieldsInv, SharedTypes
<1>3. OnlyFailuresLeak'
  <2>1. \A s \in Requests :
          /\ response'[s].of = response[s].of
          /\ response'[s].params = response[s].params
          /\ response[s].status # None => response'[s].status # None
    BY DEF ResponseTypes, Responses
  <2> QED
    BY <2>1, StatusKeeps
<1> QED
  BY <1>1, <1>2, <1>3

(* It reads its audio; the model may force two fields. *)
LEMMA ReadAudioLeakInv ==
  ASSUME IInv, LeakInv, Running, NEW r \in Requests, ReadAudio(r)
  PROVE  LeakInv'
<1> USE ModelsAssumption, RequestsAssumption DEF IInv, LeakInv, ReadAudio,
   Goto, Finish, shared
<1>0. \A f \in Fields :
        \/ params'[f] \in {params[f], "model"}
        \/ f = "language" /\ params'[f] = params'["detect_language"]
  BY Overridden DEF SharedTypes
<1>4. params'["detect_language"] = params["detect_language"]
  BY Overridden DEF SharedTypes
<1>1. SetterInv'
  <2>1. \A q \in Requests : Failed(q) => Failed(q)'
    BY DEF Failed, ResponseTypes, Responses
  <2>2. \A q \in Requests : pc[q] \in Holding => pc'[q] \in Holding \/ Failed(q)'
    BY DEF Failed, Holding, PendingInv, SharedTypes, ResponseTypes, Responses
  <2>3. "detect_language" \in Fields
    BY DEF Fields, FieldOrder, Range
  <2>4. \A f \in Fields : params'[f] = "model" \/ \E g \in Fields : params'[f] = params[g]
    BY <1>0, <1>4, <2>3
  <2> QED
    BY <2>1, <2>2, <2>4 DEF SetterInv
<1>2. OwnFieldsInv'
  <2>1. \A s \in Requests : pc'[s] \in {"convert", "read", "run", "answer"} =>
           s = r /\ pc[s] = "read"
    BY DEF SharedTypes, MutexInv, Holding
  <2>2. ASSUME NEW s \in Requests, pc'[s] \in {"convert", "read", "run", "answer"},
               NEW f \in Fields, f \in input[s].fields
        PROVE  \/ params'[f] \in {s, "model"}
               \/ f = "language" /\ params'[f] = params'["detect_language"]
    <3>1. \/ params[f] \in {s, "model"}
          \/ f = "language" /\ params[f] = params["detect_language"]
      BY <2>1, <2>2 DEF OwnFieldsInv
    <3> QED
      BY <1>0, <1>4, <3>1
  <2> QED
    BY <2>2 DEF OwnFieldsInv
<1>3. OnlyFailuresLeak'
  <2>1. \A s \in Requests :
          /\ response'[s].of = response[s].of
          /\ response'[s].params = response[s].params
          /\ response[s].status # None => response'[s].status # None
    BY DEF ResponseTypes, Responses
  <2> QED
    BY <2>1, StatusKeeps
<1> QED
  BY <1>1, <1>2, <1>3

(* It transcribes. *)
LEMMA ProcessLeakInv ==
  ASSUME IInv, LeakInv, Running, NEW r \in Requests, Process(r)
  PROVE  LeakInv'
<1> USE ModelsAssumption, RequestsAssumption DEF IInv, LeakInv, Process, Goto,
   Finish, shared
<1>1. SetterInv'
   BY DEF SetterInv, PendingInv, Failed, SharedTypes, ResponseTypes,
     Responses, Holding
<1>2. OwnFieldsInv'
  BY DEF OwnFieldsInv, SharedTypes
<1>3. OnlyFailuresLeak'
  <2>1. \A s \in Requests :
          /\ response'[s].of = response[s].of
          /\ response'[s].params = response[s].params
          /\ response[s].status # None => response'[s].status # None
    BY DEF ResponseTypes, Responses
  <2> QED
    BY <2>1, StatusKeeps
<1> QED
  BY <1>1, <1>2, <1>3

(* It answers with what it and failed requests have set, and resets. *)
LEMMA AnswerLeakInv ==
  ASSUME IInv, LeakInv, Running, NEW r \in Requests, Answer(r)
  PROVE  LeakInv'
<1> USE ModelsAssumption, RequestsAssumption DEF IInv, LeakInv, Answer, Goto,
   shared
<1>1. SetterInv'
  BY DEF SetterInv, default_params
<1>2. OwnFieldsInv'
  BY DEF OwnFieldsInv, SharedTypes, MutexInv, Holding
<1>3. OnlyFailuresLeak'
   BY DEF OnlyFailuresLeak, Transcribed, Failed, SetterInv, PendingInv, OwnFieldsInv, Failed,
     MutexInv, Holding
<1> QED
  BY <1>1, <1>2, <1>3

(* A load takes the mutex. *)
LEMMA LoadBeginLeakInv ==
  ASSUME IInv, LeakInv, Running, NEW r \in Requests, LoadBegin(r)
  PROVE  LeakInv'
<1> USE ModelsAssumption, RequestsAssumption DEF IInv, LeakInv, LoadBegin,
   Goto, Finish, shared
<1>1. SetterInv'
  BY DEF SetterInv, Failed, ResponseTypes, Responses, MutexInv
<1>2. OwnFieldsInv'
  BY DEF OwnFieldsInv, SharedTypes
<1>3. OnlyFailuresLeak'
  <2>1. \A s \in Requests :
          /\ response'[s].of = response[s].of
          /\ response'[s].params = response[s].params
          /\ response[s].status # None => response'[s].status # None
    BY DEF ResponseTypes, Responses
  <2> QED
    BY <2>1, StatusKeeps
<1> QED
  BY <1>1, <1>2, <1>3

(* It frees the context. *)
LEMMA LoadFreeLeakInv ==
  ASSUME IInv, LeakInv, Running, NEW r \in Requests, LoadFree(r)
  PROVE  LeakInv'
<1> USE ModelsAssumption, RequestsAssumption DEF IInv, LeakInv, LoadFree,
   Goto, Finish, shared
<1>1. SetterInv'
  <2>1. \A q \in Requests : Failed(q) => Failed(q)'
    BY DEF Failed, ResponseTypes, Responses
  <2>2. \A q \in Requests : pc[q] \in Holding => pc'[q] \in Holding \/ Failed(q)'
    BY DEF Failed, Holding, PendingInv, SharedTypes, ResponseTypes, Responses
  <2> QED
    BY <2>1, <2>2 DEF SetterInv, SharedTypes
<1>2. OwnFieldsInv'
  BY DEF OwnFieldsInv, SharedTypes
<1>3. OnlyFailuresLeak'
  <2>1. \A s \in Requests :
          /\ response'[s].of = response[s].of
          /\ response'[s].params = response[s].params
          /\ response[s].status # None => response'[s].status # None
    BY DEF ResponseTypes, Responses
  <2> QED
    BY <2>1, StatusKeeps
<1> QED
  BY <1>1, <1>2, <1>3

(* It brings another context. *)
LEMMA LoadInitLeakInv ==
  ASSUME IInv, LeakInv, Running, NEW r \in Requests, LoadInit(r)
  PROVE  LeakInv'
<1> USE ModelsAssumption, RequestsAssumption DEF IInv, LeakInv, LoadInit,
   Goto, Finish, shared
<1>1. SetterInv'
  <2>1. \A q \in Requests : Failed(q) => Failed(q)'
    BY DEF Failed
  <2>2. \A q \in Requests : pc[q] \in Holding => pc'[q] \in Holding \/ Failed(q)'
    BY DEF Failed, Holding, PendingInv, SharedTypes, ResponseTypes, Responses
  <2> QED
    BY <2>1, <2>2 DEF SetterInv, SharedTypes
<1>2. OwnFieldsInv'
  BY DEF OwnFieldsInv, SharedTypes
<1>3. OnlyFailuresLeak'
  <2>1. \A s \in Requests :
          /\ response'[s].of = response[s].of
          /\ response'[s].params = response[s].params
          /\ response[s].status # None => response'[s].status # None
    BY DEF ResponseTypes, Responses
  <2> QED
    BY <2>1, StatusKeeps
<1> QED
  BY <1>1, <1>2, <1>3

(* It is ready. *)
LEMMA LoadReadyLeakInv ==
  ASSUME IInv, LeakInv, Running, NEW r \in Requests, LoadReady(r)
  PROVE  LeakInv'
<1> USE ModelsAssumption, RequestsAssumption DEF IInv, LeakInv, LoadReady,
   Goto, Finish, shared
<1>1. SetterInv'
  <2>1. \A q \in Requests : Failed(q) => Failed(q)'
    BY DEF Failed, ResponseTypes, Responses
  <2>2. \A q \in Requests : pc[q] \in Holding => pc'[q] \in Holding \/ Failed(q)'
    BY DEF Failed, Holding, PendingInv, SharedTypes, ResponseTypes, Responses
  <2> QED
    BY <2>1, <2>2 DEF SetterInv, SharedTypes
<1>2. OwnFieldsInv'
  BY DEF OwnFieldsInv, SharedTypes
<1>3. OnlyFailuresLeak'
  <2>1. \A s \in Requests :
          /\ response'[s].of = response[s].of
          /\ response'[s].params = response[s].params
          /\ response[s].status # None => response'[s].status # None
    BY DEF ResponseTypes, Responses
  <2> QED
    BY <2>1, StatusKeeps
<1> QED
  BY <1>1, <1>2, <1>3

(* The health check only answers. *)
LEMMA HealthLeakInv ==
  ASSUME IInv, LeakInv, Running, NEW r \in Requests, Health(r)
  PROVE  LeakInv'
<1> USE ModelsAssumption, RequestsAssumption DEF IInv, LeakInv, Health, Goto,
   shared
<1>1. SetterInv'
  BY DEF SetterInv, Failed, Holding
<1>2. OwnFieldsInv'
  BY DEF OwnFieldsInv
<1>3. OnlyFailuresLeak'
  <2>1. \A s \in Requests :
          /\ response'[s].of = response[s].of
          /\ response'[s].params = response[s].params
          /\ response[s].status # None => response'[s].status # None
    OBVIOUS
  <2> QED
    BY <2>1, StatusKeeps
<1> QED
  BY <1>1, <1>2, <1>3

(* A signal and the end of the server touch neither params nor responses. *)
LEMMA ServerLeakInv ==
  ASSUME LeakInv, Signal \/ CleanUp \/ UNCHANGED vars
  PROVE  LeakInv'
BY DEF LeakInv, SetterInv, PendingInv, OwnFieldsInv, OnlyFailuresLeak, Failed, Transcribed,
   Signal, CleanUp, vars, shared

LEMMA NextLeakInv == IInv /\ LeakInv /\ [Next]_vars => LeakInv'
<1> SUFFICES ASSUME IInv, LeakInv, [Next]_vars PROVE LeakInv'
  OBVIOUS
<1>1. ASSUME Running, NEW r \in Requests, NEW x \in Inputs, Arrive(r, x)
      PROVE  LeakInv'
  BY <1>1, ArriveLeakInv
<1>2. ASSUME Running, NEW r \in Requests, Accept(r) \/ Disconnect(r)
      PROVE  LeakInv'
  BY <1>2, AcceptLeakInv, DisconnectLeakInv
<1>3. ASSUME Running, NEW r \in Requests, Handler(r)
      PROVE  LeakInv'
   BY <1>3, InferenceBeginLeakInv, GetReqParametersLeakInv, ConvertLeakInv,
     ReadAudioLeakInv, ProcessLeakInv, AnswerLeakInv, LoadBeginLeakInv,
     LoadFreeLeakInv, LoadInitLeakInv, LoadReadyLeakInv, HealthLeakInv, ReplyLeakInv DEF Handler
<1>4. CASE Signal \/ CleanUp \/ UNCHANGED vars
  BY <1>4, ServerLeakInv
<1> QED
  BY <1>1, <1>2, <1>3, <1>4 DEF Next, Done

(* A transcription has the request's own values of the parameters it gives, *)
(* but for language and translate with a model that is not multilingual and *)
(* for a language that detect_language replaces (server.cpp:877-886); and   *)
(* any value of another request, of detect_language too, is of one that     *)
(* ended without a transcription (params is reset at server.cpp:1121 only). *)
THEOREM ParamsSafety == Spec => []OnlyFailuresLeak
<1>1. IInv /\ LeakInv /\ [Next]_vars => (IInv /\ LeakInv)'
  BY NextIInv, NextLeakInv
<1>2. Init => IInv /\ LeakInv
  BY InitIInv, InitLeakInv
<1>3. IInv /\ LeakInv => OnlyFailuresLeak
  BY DEF LeakInv
<1> QED
  BY <1>1, <1>2, <1>3, PTL DEF Spec
=============================================================================
