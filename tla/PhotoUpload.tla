----------------------------- MODULE PhotoUpload ------------------------------
(***************************************************************************)
(* POST /v1/photos: PhotoService.create_photo in the API process, one      *)
(* request per photo, with the Kafka producer it publishes through.  Each  *)
(* await of the handler is a step of its own, so that requests, workers    *)
(* and a crash of the API process interleave between them.                 *)
(*                                                                         *)
(* request[p] is the call the handler of p makes next:                     *)
(*   "new"      not received yet                                           *)
(*   "create"   validated, about to insert the row                         *)
(*   "put"      about to put the original in the bucket                    *)
(*   "mark"     about to mark the row pending                              *)
(*   "send"     about to hand the message to the producer                  *)
(*   "sent"     waiting in send_and_wait                                   *)
(*   "accepted" answered 202                                               *)
(*   "error"    answered with an error, or cut off                         *)
(*   "refused"  answered 4xx by the validation                             *)
(***************************************************************************)
EXTENDS PhotoStore

CONSTANT MaxResend   \* bound: a delivery is repeated only while the log is
                     \* shorter than this

VARIABLES
  request,     \* the stage of each request
  putting,     \* photos whose put_object thread outlived its caller
  outbox       \* messages the producer holds and keeps trying to deliver

uploadVars == <<request, putting, outbox>>

Stages == {"new", "create", "put", "mark", "send", "sent",
           "accepted", "error", "refused"}

UploadInit == /\ request = [p \in Photos |-> "new"]
              /\ putting = {} /\ outbox = {}

UploadTypeOK == /\ request \in [Photos -> Stages]
                /\ putting \subseteq Photos /\ outbox \subseteq Photos

Proceed(p, from, to) == /\ request[p] = from
                        /\ request' = [request EXCEPT ![p] = to]

-------------------------------------------------------------------------------
\* Lines 28-47: size, content type and magic bytes; nothing is stored before.
Refuse(p) == /\ Proceed(p, "new", "refused")
             /\ UNCHANGED <<storeVars, putting, outbox>>

Validate(p) == /\ Proceed(p, "new", "create")
               /\ UNCHANGED <<storeVars, putting, outbox>>

\* Line 62.  An insert that raised may have left a row, whose request answers
\* 500.
CreateRow(p) ==
  /\ \/ Proceed(p, "create", "put") /\ InsertRow(p)
     \/ /\ MayFail("db") /\ Proceed(p, "create", "error")
        /\ InsertRow(p) \/ UNCHANGED rows
  /\ UNCHANGED <<blobs, topic, putting, outbox>>

\* Mutant of PutOriginal: a failed or timed out put is only logged.
PutOriginalUnchecked(p) ==
  /\ Proceed(p, "put", "mark")
  /\ \/ originals' = originals \cup {p} /\ UNCHANGED putting
     \/ MayFail("minio") /\ UNCHANGED originals /\ putting' \in {putting, putting \cup {p}}
  /\ UNCHANGED <<rows, previews, topic, outbox>>

\* Line 63.  put_object runs in a thread; when wait_for gives up the thread
\* keeps running, and may store the object after the request has failed.
PutOriginal(p) ==
  /\ \/ /\ Proceed(p, "put", "mark")
        /\ originals' = originals \cup {p} /\ UNCHANGED putting
     \/ /\ MayFail("minio") /\ Proceed(p, "put", "error")
        /\ UNCHANGED originals /\ putting' \in {putting, putting \cup {p}}
  /\ UNCHANGED <<rows, previews, topic, outbox>>

LatePut(p) == /\ p \in putting
              /\ putting' = putting \ {p}
              /\ originals' = originals \cup {p}
              /\ UNCHANGED <<rows, previews, topic, request, outbox>>

\* Line 64.
MarkPending(p) ==
  /\ \/ Proceed(p, "mark", "send") /\ SetStatus(p, "pending")
     \/ /\ MayFail("db") /\ Proceed(p, "mark", "error")
        /\ SetStatus(p, "pending") \/ UNCHANGED rows
  /\ UNCHANGED <<blobs, topic, putting, outbox>>

\* Mutant of Send: the message is handed over and its answer not awaited.
SendUnawaited(p) == /\ Proceed(p, "send", "accepted")
                    /\ outbox' = outbox \cup {p}
                    /\ UNCHANGED <<storeVars, putting>>

\* Lines 66-71 and KafkaProducer.send: with a producer the message is handed
\* over; without one startup is tried again and the send raises.
Send(p) == /\ Proceed(p, "send", "sent")
           /\ outbox' = outbox \cup {p}
           /\ UNCHANGED <<storeVars, putting>>

SendWithoutProducer(p) == /\ MayFail("send")
                          /\ Proceed(p, "send", "error")
                          /\ UNCHANGED <<storeVars, putting, outbox>>

\* The broker appends the message.  When its answer is lost the producer,
\* which is not idempotent, sends the same message again.
Deliver(p) == /\ p \in outbox
              /\ topic' = Append(topic, p)
              /\ outbox' = outbox \ {p}
              /\ UNCHANGED <<rows, blobs, request, putting>>

DeliverUnanswered(p) == /\ MayFail("resend")
                        /\ p \in outbox
                        /\ Len(topic) < MaxResend
                        /\ topic' = Append(topic, p)
                        /\ UNCHANGED <<rows, blobs, uploadVars>>

\* Line 80: send_and_wait has returned, and the client is told 202.
Accept(p) == /\ p \notin outbox
             /\ Proceed(p, "sent", "accepted")
             /\ UNCHANGED <<storeVars, putting, outbox>>

\* Mutant of SendTimeout: the timeout is only logged, and the client told 202.
SendTimeoutIgnored(p) == /\ MayFail("send")
                         /\ Proceed(p, "sent", "accepted")
                         /\ UNCHANGED <<storeVars, putting, outbox>>

\* send_and_wait does not answer within SERVICE_TIMEOUT.  Only the waiting is
\* cancelled: the producer still holds the message.
SendTimeout(p) == /\ MayFail("send")
                  /\ Proceed(p, "sent", "error")
                  /\ UNCHANGED <<storeVars, putting, outbox>>

\* The producer gives the message up and fails the future of whoever waits.
DropMessage(p) ==
  /\ MayFail("send")
  /\ p \in outbox
  /\ outbox' = outbox \ {p}
  /\ request' = [request EXCEPT ![p] = IF @ = "sent" THEN "error" ELSE @]
  /\ UNCHANGED <<storeVars, putting>>

\* The API process dies: its requests, its threads and its producer with it.
InFlight(p) == request[p] \in {"create", "put", "mark", "send", "sent"}

ApiCrash == /\ MayFail("api")
            /\ request' = [p \in Photos |->
                             IF InFlight(p) THEN "error" ELSE request[p]]
            /\ putting' = {} /\ outbox' = {}
            /\ UNCHANGED storeVars

-------------------------------------------------------------------------------
HandlerStep(p) == \/ CreateRow(p) \/ PutOriginal(p) \/ MarkPending(p)
                  \/ Send(p) \/ Accept(p)

UploadStep(p) == \/ Refuse(p) \/ Validate(p)
                 \/ HandlerStep(p) \/ Deliver(p)
                 \/ LatePut(p) \/ SendWithoutProducer(p)
                 \/ DeliverUnanswered(p) \/ SendTimeout(p) \/ DropMessage(p)
===============================================================================
