------------------------------- MODULE S3Store -------------------------------
(***************************************************************************)
(* The S3 adapter: StorageService's calls go through an SDK that repeats a *)
(* request whose answer it never saw, to a bucket other clients write to   *)
(* directly with presigned URLs.  The bucket (as test-utils/fake-s3-api    *)
(* answers for it) applies each request in one step; what can be slow,     *)
(* lost or repeated is everything around it.                               *)
(***************************************************************************)
EXTENDS Naturals, FiniteSets

CONSTANTS Op, Work,     \* the calls, and per call its method, key, type and expiry
          Key, Invalid, \* object keys, and those assertValidObjectKey refuses
          Type,         \* content types a client may upload with
          maxAttempts,  \* the SDK's retry strategy
          MaxNow, MaxFaults

VARIABLES
    isConfigured,  \* all of S3_REQUIRED_ENV was set at construction
    bucket,        \* the bucket exists
    objects,       \* per key, who wrote the object and its content type
    call,          \* per call, "idle" / "sending" / "signing" / its answer
    attempts,      \* per call in flight, requests sent so far
    missed,        \* <<read, what>>: "object" or "bucket" was absent while it was in flight
    url,           \* per presign, what was signed, for until when, and the expiry told
    now, faults

vars == <<isConfigured, bucket, objects, call, attempts, missed, url, now, faults>>

Absent == [by |-> "none", type |-> "none"]
NoUrl == [issued |-> FALSE, type |-> "none", until |-> 0, expiresAt |-> 0]
InFlight(o) == call[o] = "sending"
key(o) == Work[o].key
Presigns == {o \in Op : Work[o].method = "presignPut"}

\* The calls that send HEAD, whose answers have no body to name an error in, and
\* the calls that read.
Heads == {o \in Op : Work[o].method \in {"exists", "head"}}
Reads == Heads \cup {o \in Op : Work[o].method = "get"}

-----------------------------------------------------------------------------
(* Translating failures *)

\* An error as the SDK raises it: its name and the status of the response.
Error(name, status) == [name |-> name, httpStatusCode |-> status]
NoError == Error("none", 200)

\* Mutant: any 404 is taken for a missing object.
isMissingObjectByStatus(error) == error.httpStatusCode = 404

\* NoSuchKey on GET, a bare NotFound on HEAD, or whatever else a compatible store
\* calls its 404; a missing bucket, where the error says so, is none of them.
isMissingObject(error) ==
    \/ error.name \in {"NoSuchKey", "NotFound"}
    \/ error.httpStatusCode = 404 /\ error.name # "NoSuchBucket"

Failure(o, error) ==
    IF ~isMissingObject(error) THEN "failed"
    ELSE IF Work[o].method = "exists" THEN "false" ELSE "notFound"

\* What the bucket answers a read with: on AWS, and on stores that name their
\* errors otherwise or in a header.
ReadErrors(o) ==
    LET head == o \in Heads IN
    IF ~bucket THEN {Error("NoSuchBucket", 404)} \cup (IF head THEN {Error("NotFound", 404)} ELSE {})
    ELSE IF objects[key(o)] # Absent THEN {NoError}
    ELSE {Error(IF head THEN "NotFound" ELSE "NoSuchKey", 404), Error("Unknown", 404)}

-----------------------------------------------------------------------------
\* The checks before the first request: the key, then the credentials.
begin(o) ==
    /\ call[o] = "idle"
    /\ call' = [call EXCEPT ![o] =
                  IF key(o) \in Invalid THEN "invalid"
                  ELSE IF ~isConfigured THEN "notConfigured"
                  ELSE IF Work[o].method = "presignPut" THEN "signing" ELSE "sending"]
    /\ missed' = missed \cup {<<p, what>> \in {o} \X {"object", "bucket"} :
                               /\ call'[p] = "sending" /\ p \in Reads
                               /\ what = "object" => objects[key(p)] = Absent
                               /\ what = "bucket" => ~bucket}
    /\ UNCHANGED <<isConfigured, bucket, objects, attempts, url, now, faults>>

\* The effect of a request that reaches the bucket, and what it answers.
Applied(o) ==
    CASE ~bucket -> objects
      [] bucket /\ Work[o].method = "put" ->
           [objects EXCEPT ![key(o)] = [by |-> o, type |-> Work[o].type]]
      [] bucket /\ Work[o].method = "delete" -> [objects EXCEPT ![key(o)] = Absent]
      [] OTHER -> objects

\* The answers a call may come to.  A delete succeeds whether or not the key was there.
Answers(o) ==
    IF o \in Reads
    THEN {IF e = NoError THEN "ok" ELSE Failure(o, e) : e \in ReadErrors(o)}
    ELSE {IF bucket THEN "ok" ELSE Failure(o, Error("NoSuchBucket", 404))}

Deleted(o) ==
    IF Applied(o)[key(o)] = Absent
    THEN {<<p, "object">> : p \in {q \in Reads : InFlight(q) /\ key(q) = key(o)}} ELSE {}

\* One attempt: answered, refused by a throttle or lost on the way there
\* (nothing happened), or its answer lost on the way back (everything did).
\* The SDK sends again while attempts remain.
send(o) ==
    /\ InFlight(o)
    /\ \/ /\ objects' = Applied(o)
          /\ missed' = missed \cup Deleted(o)
          /\ \E answer \in Answers(o) : call' = [call EXCEPT ![o] = answer]
          /\ UNCHANGED faults
       \/ /\ faults < MaxFaults /\ faults' = faults + 1
          /\ \/ UNCHANGED <<objects, missed>>
             \/ objects' = Applied(o) /\ missed' = missed \cup Deleted(o)
          /\ call' = [call EXCEPT ![o] =
                        IF attempts[o] + 1 < maxAttempts THEN "sending" ELSE "failed"]
    /\ attempts' = [attempts EXCEPT ![o] = IF call'[o] = "sending" THEN @ + 1 ELSE 0]
    /\ UNCHANGED <<isConfigured, bucket, url, now>>

\* presignPut: the signature is dated when it is made, and covers the type.
presign(o) ==
    /\ call[o] = "signing" /\ ~url[o].issued
    /\ url' = [url EXCEPT ![o] = [issued |-> TRUE, type |-> Work[o].type,
                                  until |-> now + Work[o].expiresIn, expiresAt |-> 0]]
    /\ UNCHANGED <<isConfigured, bucket, objects, call, attempts, missed, now, faults>>

\* expiryFrom, once the promise of the signature has settled.
expiryFrom(o) ==
    /\ call[o] = "signing" /\ url[o].issued
    /\ url' = [url EXCEPT ![o].expiresAt = now + Work[o].expiresIn]
    /\ call' = [call EXCEPT ![o] = "ok"]
    /\ UNCHANGED <<isConfigured, bucket, objects, attempts, missed, now, faults>>

\* A signature over the host alone lets the client choose the type.
verifiesHostOnly(o, type) == now <= url[o].until

verifies(o, type) == now <= url[o].until /\ type = url[o].type

\* A client with the URL uploads, straight to the bucket.
upload(o, type) ==
    /\ call[o] = "ok" /\ o \in Presigns /\ bucket
    /\ verifies(o, type)
    /\ objects' = [objects EXCEPT ![key(o)] = [by |-> o, type |-> type]]
    /\ UNCHANGED <<isConfigured, bucket, call, attempts, missed, url, now, faults>>

\* The operator removes the bucket, or puts it back, objects and all.
operator ==
    /\ faults < MaxFaults /\ faults' = faults + 1
    /\ bucket' = ~bucket
    /\ missed' = missed \cup (IF bucket THEN {<<o, "bucket">> : o \in {q \in Reads : InFlight(q)}} ELSE {})
    /\ UNCHANGED <<isConfigured, objects, call, attempts, url, now>>

tick ==
    /\ now < MaxNow /\ now' = now + 1
    /\ UNCHANGED <<isConfigured, bucket, objects, call, attempts, missed, url, faults>>

Init ==
    /\ isConfigured \in BOOLEAN /\ bucket = TRUE
    /\ objects = [k \in Key |-> Absent]
    /\ call = [o \in Op |-> "idle"] /\ attempts = [o \in Op |-> 0]
    /\ missed = {} /\ url = [o \in Presigns |-> NoUrl]
    /\ now = 0 /\ faults = 0

Next ==
    \/ \E o \in Op : begin(o) \/ send(o)
    \/ \E o \in Presigns : presign(o) \/ expiryFrom(o)
    \/ \E o \in Presigns, type \in Type : upload(o, type)
    \/ operator \/ tick

Spec == Init /\ [][Next]_vars

-----------------------------------------------------------------------------
\* "Not found" (and exists answering false) is only ever said of a key that was
\* absent at some moment of the call: never because a throttle refused or the
\* network lost the answer, with whatever puts, deletes, repeats and direct uploads
\* in between, and never because the bucket is gone, except to a HEAD whose bare 404
\* cannot say so (call, isMissingObject).
NotFoundIsTrue ==
    \A o \in Op : call[o] \in {"notFound", "false"} =>
        \/ <<o, "object">> \in missed
        \/ o \in Heads /\ <<o, "bucket">> \in missed

\* An object uploaded with a presigned URL has the content type that was signed,
\* and the URL is never good for longer than the caller was told
\* (presignPut, expiryFrom).
UploadsAsSigned ==
    /\ \A k \in Key : objects[k].by \in Presigns => objects[k].type = Work[objects[k].by].type
    /\ \A o \in Presigns : call[o] = "ok" => url[o].until <= url[o].expiresAt
=============================================================================
