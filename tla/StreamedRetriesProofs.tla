------------------------- MODULE StreamedRetriesProofs ------------------------
(***************************************************************************)
(* upload_streamed_with_retries, for every length of body, channel capacity *)
(* and number of retries.                                                   *)
(***************************************************************************)
EXTENDS StreamedRetries, SequenceTheorems, TLAPS

(* What is known of the body of every attempt *)
BodyInv ==
    /\ produced \in [Attempts -> 0 .. ContentLength]
    /\ wire \in [Attempts -> Nat]
    /\ rx_open \subseteq Attempts
    /\ ended \subseteq Attempts
    /\ \A k \in Attempts :
          /\ wire[k] <= produced[k]
          /\ produced[k] - wire[k] <= ChannelCapacity

(* What is known of the object *)
StorageInv ==
    /\ stored \subseteq Attempts
    /\ \A k \in stored : wire[k] = ContentLength
    /\ object \in stored \cup {0}
    /\ stored # {} => object # 0

(* What the loop has decided so far, and on which errors *)
LoopInv ==
    /\ retries \in 0 .. MaxRetries
    /\ pc \in {"uploading", "Ok", "Err", "cancelled"}
    /\ errors \in Seq(Failures)
    /\ Len(errors) = IF pc = "Err" THEN current ELSE retries
    /\ \A k \in 1 .. retries : errors[k] \in Transient
    /\ pc = "Err" /\ errors[current] \in Transient => retries = MaxRetries
    /\ pc = "Ok" => current \in stored \/ EarlyAnswers

IInv == BodyInv /\ StorageInv /\ LoopInv

-----------------------------------------------------------------------------
(* is_retryable tells the failures of the moment from the others. *)
LEMMA HopeIsRetryable ==
    ASSUME NEW e \in Failures
    PROVE  is_retryable(e) <=> e \in Transient
  <1> USE DEF is_retryable, fl_url_error_is_retryable, UnexpectedStatusCode, Typed,
              FlUrlError, None
  <1>1. ASSUME e \in Transient PROVE is_retryable(e)
    <2>1. CASE e = UnexpectedStatusCode(400, <<"SlowDown">>)
      <3>1. <<"SlowDown">> \in {<<c>> : c \in AskedForByName}
        BY DEF AskedForByName
      <3> QED BY <2>1, <3>1
    <2>2. CASE e = UnexpectedStatusCode(503, None)
      BY <2>2
    <2>3. CASE e = FlUrlError("timeout")
      BY <2>3 DEF TransportFailures
    <2> QED BY <1>1, <2>1, <2>2, <2>3 DEF Transient
  <1>2. ASSUME e \in Deterministic PROVE ~is_retryable(e)
    <2>1. CASE e = UnexpectedStatusCode(403, <<"AccessDenied">>)
      <3>1. <<"AccessDenied">> \notin {<<c>> : c \in AskedForByName}
        BY DEF AskedForByName
      <3> QED BY <2>1, <3>1
    <2>2. CASE e = Typed("BucketNotFound")
      BY <2>2
    <2>3. CASE e = FlUrlError("InvalidUrl")
      BY <2>3 DEF TransportFailures
    <2> QED BY <1>2, <2>1, <2>2, <2>3 DEF Deterministic
  <1> QED BY <1>1, <1>2 DEF Failures

-----------------------------------------------------------------------------
(* One more attempt behind those there were *)
LEMMA AppendExtends ==
    ASSUME NEW n \in Nat, NEW S, NEW f \in [1 .. n -> S], NEW e \in S
    PROVE  /\ Append(f, e) \in [1 .. n + 1 -> S]
           /\ Append(f, e)[n + 1] = e
           /\ \A k \in 1 .. n : Append(f, e)[k] = f[k]
  <1>1. f \in Seq(S) /\ Len(f) = n
    OBVIOUS
  <1>2. Append(f, e) \in Seq(S) /\ Len(Append(f, e)) = n + 1
    BY <1>1
  <1>3. Append(f, e) \in [1 .. n + 1 -> S]
    BY <1>2, LenProperties
  <1>4. Append(f, e)[n + 1] = e
    BY <1>1
  <1>5. ASSUME NEW k \in 1 .. n PROVE Append(f, e)[k] = f[k]
    BY <1>1
  <1> QED BY <1>3, <1>4, <1>5

(* The first attempt begins with the invariant. *)
LEMMA InitEstablishesInv == Init => IInv
  <1> SUFFICES ASSUME Init PROVE IInv
    OBVIOUS
  <1> USE LengthAssumption, CapacityAssumption, RetriesAssumption DEF Init, current, Attempts
  <1>1. BodyInv
    BY DEF BodyInv
  <1>2. StorageInv
    BY DEF StorageInv
  <1>3. LoopInv
    BY DEF LoopInv
  <1> QED BY <1>1, <1>2, <1>3 DEF IInv

(* A step of the producer, the client or the storage, for any attempt. *)
LEMMA BodiesKeepIInv ==
    ASSUME IInv, NEW k \in Attempts, BodiesRun(k)
    PROVE  IInv'
  <1> USE LengthAssumption, CapacityAssumption, RetriesAssumption DEF current, Attempts
  <1>0. retries \in Nat
    BY DEF IInv, LoopInv
  <1>1. ASSUME UNCHANGED <<retries, errors, pc>>, stored \subseteq stored'
        PROVE  LoopInv'
    BY <1>1 DEF IInv, LoopInv
  <1>2. CASE Produces(k)
    <2>0. /\ produced[k] + 1 \in 0 .. ContentLength
          /\ produced[k] + 1 - wire[k] <= ChannelCapacity
          /\ wire[k] <= produced[k] + 1
      BY <1>2 DEF Produces, ChannelIsFull, IInv, BodyInv
    <2>1. BodyInv'
      <3>1. produced' = [produced EXCEPT ![k] = produced[k] + 1]
            /\ UNCHANGED <<retries, ended, rx_open, wire>>
        BY <1>2 DEF Produces
      <3>2. produced' \in [Attempts -> 0 .. ContentLength]
        BY <2>0, <3>1 DEF IInv, BodyInv
      <3>3. ASSUME NEW i \in Attempts
            PROVE  wire[i] <= produced'[i] /\ produced'[i] - wire[i] <= ChannelCapacity
        BY <2>0, <3>1 DEF IInv, BodyInv
      <3> QED BY <3>1, <3>2, <3>3 DEF IInv, BodyInv
    <2>2. StorageInv'
      BY <1>2 DEF Produces, IInv, StorageInv
    <2> QED BY <1>1, <1>2, <2>1, <2>2 DEF Produces, IInv
  <1>3. CASE ProducerEnds(k) \/ LetsGo(k)
    <2>1. BodyInv'
      BY <1>3 DEF ProducerEnds, LetsGo, IInv, BodyInv
    <2>2. StorageInv'
      BY <1>3 DEF ProducerEnds, LetsGo, IInv, StorageInv
    <2> QED BY <1>1, <1>3, <2>1, <2>2 DEF ProducerEnds, LetsGo, IInv
  <1>4. CASE Sends(k)
    <2>0. /\ wire[k] + 1 \in Nat
          /\ wire[k] + 1 <= produced[k]
          /\ produced[k] - (wire[k] + 1) <= ChannelCapacity
      BY <1>4 DEF Sends, IInv, BodyInv
    <2>1. BodyInv'
      <3>1. wire' = [wire EXCEPT ![k] = wire[k] + 1]
            /\ UNCHANGED <<retries, ended, rx_open, produced>>
        BY <1>4 DEF Sends
      <3>2. wire' \in [Attempts -> Nat]
        BY <2>0, <3>1 DEF IInv, BodyInv
      <3>3. ASSUME NEW i \in Attempts
            PROVE  wire'[i] <= produced[i] /\ produced[i] - wire'[i] <= ChannelCapacity
        BY <2>0, <3>1 DEF IInv, BodyInv
      <3> QED BY <3>1, <3>2, <3>3 DEF IInv, BodyInv
    <2>2. k \notin stored
      BY <1>4 DEF Sends, IInv, BodyInv, StorageInv
    <2>3. StorageInv'
      BY <1>4, <2>2 DEF Sends, IInv, BodyInv, StorageInv
    <2> QED BY <1>1, <1>4, <2>1, <2>3 DEF Sends, IInv
  <1>5. CASE Commits(k)
    <2>1. BodyInv'
      BY <1>5 DEF Commits, bodyVars, IInv, BodyInv
    <2>2. StorageInv'
      BY <1>0, <1>5 DEF Commits, bodyVars, IInv, StorageInv
    <2> QED BY <1>1, <1>5, <2>1, <2>2 DEF Commits, IInv
  <1> QED BY <1>2, <1>3, <1>4, <1>5 DEF BodiesRun

(* The end of an attempt that failed, with or without another one. *)
LEMMA FailureKeepsIInv ==
    ASSUME IInv, NEW e \in Failures, AttemptFails(e)
    PROVE  IInv'
  <1> USE LengthAssumption, CapacityAssumption, RetriesAssumption DEF current, Attempts
  <1>1. /\ retries \in Nat /\ retries <= MaxRetries /\ pc = "uploading"
        /\ errors \in Seq(Failures) /\ Len(errors) = retries
        /\ errors' = Append(errors, e)
        /\ \A k \in 1 .. retries : errors[k] \in Transient
    BY DEF AttemptFails, IInv, LoopInv
  <1>2. /\ errors' \in Seq(Failures) /\ Len(errors') = retries + 1
        /\ errors'[retries + 1] = e
        /\ \A k \in 1 .. retries : errors'[k] = errors[k]
    BY <1>1
  <1>3. CASE retries >= MaxRetries \/ ~is_retryable(e)
    <2>1. pc' = "Err" /\ UNCHANGED <<retries, produced, ended, rx_open, wire, stored, object>>
      BY <1>3 DEF AttemptFails, bodyVars
    <2>2. e \in Transient => retries = MaxRetries
      BY <1>1, <1>3, HopeIsRetryable
    <2>3. LoopInv'
      BY <1>1, <1>2, <2>1, <2>2 DEF LoopInv
    <2>4. BodyInv'
      BY <2>1 DEF IInv, BodyInv
    <2>5. StorageInv'
      BY <2>1 DEF IInv, StorageInv
    <2> QED BY <2>3, <2>4, <2>5 DEF IInv
  <1>4. CASE ~(retries >= MaxRetries \/ ~is_retryable(e))
    <2>1. /\ retries' = retries + 1 /\ pc' = "uploading"
          /\ produced' = Append(produced, 0) /\ wire' = Append(wire, 0)
          /\ rx_open' = rx_open \cup {retries + 2}
          /\ UNCHANGED <<ended, stored, object>>
      BY <1>1, <1>4 DEF AttemptFails, NewAttempt
    <2>2. e \in Transient
      BY <1>4, HopeIsRetryable
    <2>3. LoopInv'
      BY <1>1, <1>2, <1>4, <2>1, <2>2 DEF LoopInv
    <2>4. PICK n \in Nat : n = retries + 1
      BY <1>1
    <2>5. /\ produced' \in [1 .. n + 1 -> 0 .. ContentLength]
          /\ produced'[n + 1] = 0
          /\ \A k \in 1 .. n : produced'[k] = produced[k]
      <3> DEFINE D == 0 .. ContentLength
      <3>1. produced \in [1 .. n -> D] /\ 0 \in D
        BY <2>4 DEF IInv, BodyInv
      <3> HIDE DEF D
      <3>2. /\ Append(produced, 0) \in [1 .. n + 1 -> D]
            /\ Append(produced, 0)[n + 1] = 0
            /\ \A k \in 1 .. n : Append(produced, 0)[k] = produced[k]
        BY <3>1, AppendExtends, SMTT(30)
      <3> QED BY <2>1, <3>2 DEF D
    <2>6. /\ wire' \in [1 .. n + 1 -> Nat]
          /\ wire'[n + 1] = 0
          /\ \A k \in 1 .. n : wire'[k] = wire[k]
      <3> DEFINE D == Nat
      <3>1. wire \in [1 .. n -> D] /\ 0 \in D
        BY <2>4 DEF IInv, BodyInv
      <3> HIDE DEF D
      <3>2. /\ Append(wire, 0) \in [1 .. n + 1 -> D]
            /\ Append(wire, 0)[n + 1] = 0
            /\ \A k \in 1 .. n : Append(wire, 0)[k] = wire[k]
        BY <3>1, AppendExtends, SMTT(30)
      <3> QED BY <2>1, <3>2 DEF D
    <2>7. BodyInv'
      <3>1. Attempts' = 1 .. n + 1 /\ Attempts = 1 .. n
        BY <2>1, <2>4
      <3>2. rx_open' \subseteq Attempts' /\ ended' \subseteq Attempts'
        <4>1. rx_open \subseteq 1 .. n /\ ended \subseteq 1 .. n
          BY <3>1 DEF IInv, BodyInv
        <4>2. rx_open' = rx_open \cup {n + 1} /\ ended' = ended
          BY <1>1, <2>1, <2>4
        <4>3. 1 .. n \subseteq 1 .. n + 1 /\ n + 1 \in 1 .. n + 1
          BY <2>4
        <4> HIDE DEF Attempts
        <4> QED BY <3>1, <4>1, <4>2, <4>3
      <3>3. ASSUME NEW k \in 1 .. n + 1
            PROVE  wire'[k] <= produced'[k] /\ produced'[k] - wire'[k] <= ChannelCapacity
        <4>1. CASE k = n + 1
          BY <2>5, <2>6, <4>1
        <4>2. CASE k # n + 1
          <5>1. k \in 1 .. n
            BY <4>2
          <5> QED BY <2>5, <2>6, <3>1, <5>1 DEF IInv, BodyInv
        <4> QED BY <4>1, <4>2
      <3> HIDE DEF Attempts
      <3> QED BY <2>5, <2>6, <3>1, <3>2, <3>3 DEF BodyInv
    <2>8. StorageInv'
      BY <1>1, <2>1, <2>4, <2>6 DEF IInv, StorageInv
    <2> QED BY <2>3, <2>7, <2>8 DEF IInv
  <1> QED BY <1>3, <1>4

(* Every step keeps the invariant. *)
LEMMA StepKeepsIInv == IInv /\ [Next]_vars => IInv'
  <1> SUFFICES ASSUME IInv, [Next]_vars PROVE IInv'
    OBVIOUS
  <1>1. ASSUME UNCHANGED <<retries, produced, ended, rx_open, wire, stored, object, errors>>,
               pc' \in {pc, "Ok", "cancelled"}, pc' # pc => pc = "uploading",
               pc' = "Ok" => current \in stored \/ EarlyAnswers
        PROVE  IInv'
    <2>1. BodyInv'
      BY <1>1 DEF IInv, BodyInv, Attempts, current
    <2>2. StorageInv'
      BY <1>1 DEF IInv, StorageInv, Attempts, current
    <2>3. LoopInv'
      BY <1>1 DEF IInv, LoopInv, current
    <2> QED BY <2>1, <2>2, <2>3 DEF IInv
  <1>2. CASE AttemptSucceeds
    BY <1>1, <1>2 DEF AttemptSucceeds, bodyVars
  <1>3. CASE Cancelled
    BY <1>1, <1>3 DEF Cancelled, bodyVars
  <1>4. CASE UNCHANGED vars
    BY <1>1, <1>4 DEF vars, IInv, LoopInv
  <1> QED
    BY <1>2, <1>3, <1>4, BodiesKeepIInv, FailureKeepsIInv DEF Next, Terminated

(* IInv holds in every reachable state, for every choice of the constants. *)
THEOREM InvHolds == Spec => []IInv
  BY InitEstablishesInv, StepKeepsIInv, PTL DEF Spec

(* The channel of every attempt keeps to its capacity, and what the storage    *)
(* has of an attempt is all of its body, whenever it arrived.                *)
THEOREM WholeBodies == Spec => [](BodyInv /\ StorageInv)
  <1>1. IInv => BodyInv /\ StorageInv
    BY DEF IInv
  <1> QED BY <1>1, InvHolds, PTL

(* An attempt that was stored had a producer that delivered the whole payload: *)
(* what is on the wire of an attempt came through its own channel.           *)
LEMMA StoredIsDelivered ==
    ASSUME IInv, NEW k \in stored
    PROVE  produced[k] = ContentLength
  <1>1. k \in Attempts /\ wire[k] = ContentLength
    BY DEF IInv, StorageInv
  <1>2. produced[k] \in 0 .. ContentLength /\ wire[k] <= produced[k]
    BY <1>1 DEF IInv, BodyInv
  <1> QED BY <1>1, <1>2, LengthAssumption

(* The object is the previous one or the payload of one producer, delivered to *)
(* its end, and Ok is said only when the last producer delivered its own, or *)
(* by a storage that answers before it has the body.                         *)
THEOREM OnePayload == Spec => []ObjectIsOnePayload
  <1>1. IInv => ObjectIsOnePayload
    <2> SUFFICES ASSUME IInv PROVE ObjectIsOnePayload
      OBVIOUS
    <2>1. object # 0 => produced[object] = ContentLength
      BY StoredIsDelivered DEF IInv, StorageInv
    <2>2. pc = "Ok" /\ ~EarlyAnswers => produced[current] = ContentLength
      BY StoredIsDelivered DEF IInv, LoopInv
    <2> QED BY <2>1, <2>2 DEF ObjectIsOnePayload
  <1> QED BY <1>1, InvHolds, PTL

(* Every retry was made after an error worth it, and no error worth a retry    *)
(* ends the call before the attempts are spent.                              *)
THEOREM RetriesOnHope == Spec => []RetriesAreSpentOnlyOnHope
  <1>1. IInv => RetriesAreSpentOnlyOnHope
    BY DEF IInv, LoopInv, RetriesAreSpentOnlyOnHope
  <1> QED BY <1>1, InvHolds, PTL
=============================================================================
