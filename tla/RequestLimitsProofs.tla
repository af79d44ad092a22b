------------------------ MODULE RequestLimitsProofs ------------------------
(***************************************************************************)
(* The limits agree for every configuration an operator may start and      *)
(* every request a client may send.                                        *)
(***************************************************************************)
EXTENDS RequestLimits, TLAPS

Phases == {"starting", "not started", "serving", "invalid", "unavailable",
           "valid", "queued", "admitted", "running", "evicted", "answered",
           "failed"}

TypeOK ==
  /\ args \in [mode : Modes, maxSeqLen : Nat, maxNewTokens : Nat,
              fault : BOOLEAN]
  /\ request \in [prompt : Nat, maxTokens : Nat \cup {Unset}, fault : BOOLEAN]
  /\ phase \in Phases
  /\ maxTokens \in Nat
  /\ channel \in [capacity : Nat, buffered : Nat]
  /\ lease \in Nat
  /\ cached \in Nat
  /\ generated \in Nat

\* A process that serves has valid arguments that fit the model.
ServesWithinTheModel ==
  phase \notin {"starting", "not started"} =>
    ValidArgs(args) /\ args.maxSeqLen <= ModelPositions

\* What validate_options grants.
GrantedTokens ==
  phase \in {"valid", "queued", "admitted", "running"} =>
    /\ ~request.fault
    /\ maxTokens = RequestedTokens(request)
    /\ maxTokens > 0 /\ maxTokens <= args.maxNewTokens

\* What submit_prompt grants.
SequenceFits ==
  phase \in {"queued", "admitted", "running"} =>
    /\ request.prompt > 0
    /\ request.prompt + maxTokens <= args.maxSeqLen
    /\ channel.capacity = ChannelCapacity

\* Before the first decode step nothing was generated or sent.
NothingYet ==
  phase \in {"starting", "serving", "valid", "queued", "admitted"} =>
    generated = 0 /\ channel.buffered = 0

\* A running sequence holds one cache entry less than it has tokens.
WithinTheLease ==
  /\ phase \in {"admitted", "running"} => lease = request.prompt + maxTokens
  /\ phase = "running" => /\ cached = request.prompt - 1 + generated
                          /\ generated < maxTokens
                          /\ channel.buffered <= generated

IInv ==
  /\ TypeOK
  /\ ServesWithinTheModel
  /\ GrantedTokens
  /\ SequenceFits
  /\ NothingYet
  /\ WithinTheLease
  /\ NothingFailsLate
  /\ DefaultsAreServed
  /\ ShortResponsesNeedNoReader

USE LimitsAssumption

LEMMA LengthsAreNatural == \A n \in Lengths : n \in Nat
BY LimitsAssumption

LEMMA InitIInv == Init => IInv
<1> SUFFICES ASSUME Init PROVE IInv
  OBVIOUS
<1>1. args \in [mode : Modes, maxSeqLen : Nat, maxNewTokens : Nat,
                fault : BOOLEAN]
  BY LengthsAreNatural DEF Init, ServeArgs
<1>2. TypeOK
  BY <1>1 DEF Init, TypeOK, Phases, NoRequest, NoChannel, Unset
<1> QED
  BY <1>2 DEF Init, IInv, ServesWithinTheModel, GrantedTokens, SequenceFits,
     NothingYet, WithinTheLease, NothingFailsLate, DefaultsAreServed,
     ShortResponsesNeedNoReader, NoChannel, NoRequest

LEMMA StartStep == IInv /\ Start => IInv'
BY DEF IInv, Start, TypeOK, Phases, ServesWithinTheModel, GrantedTokens,
   SequenceFits, NothingYet, WithinTheLease, NothingFailsLate,
   DefaultsAreServed, ShortResponsesNeedNoReader

LEMMA ReceiveStep == ASSUME NEW r \in Requests, IInv, Receive(r) PROVE IInv'
<1>1. r \in [prompt : Nat, maxTokens : Nat \cup {Unset}, fault : BOOLEAN]
  BY LengthsAreNatural DEF Requests
<1>2. RequestedTokens(r) \in Nat \cup {Unset}
  BY <1>1 DEF RequestedTokens, Smaller, IInv, TypeOK
<1>3. TypeOK'
  BY <1>1, <1>2 DEF Receive, IInv, TypeOK, Phases, ValidOptions, Unset
\* The default is granted: it is the smaller of two positive limits.
<1>4. DefaultsAreServed'
  BY <1>1 DEF DefaultsAreServed, Receive, ValidOptions, RequestedTokens,
     Smaller, IInv, TypeOK, ServesWithinTheModel, ValidArgs
<1>5. RequestedTokens(r)' = RequestedTokens(r)
  BY DEF Receive, RequestedTokens
<1> QED
  BY <1>3, <1>4, <1>5 DEF Receive, ValidOptions, IInv, ServesWithinTheModel,
     GrantedTokens, SequenceFits, NothingYet, WithinTheLease,
     NothingFailsLate, ShortResponsesNeedNoReader

LEMMA RejectPromptStep == IInv /\ RejectPrompt => IInv'
<1> SUFFICES ASSUME IInv, RejectPrompt PROVE IInv'
  OBVIOUS
\* One prompt token and the default response fit: max_new < max_seq_len.
<1>1. DefaultsAreServed'
  BY DEF DefaultsAreServed, RejectPrompt, PromptFits, SaturatingAdd, Smaller,
     IInv, TypeOK, ServesWithinTheModel, ValidArgs, GrantedTokens,
     RequestedTokens
<1> QED
  BY <1>1 DEF RejectPrompt, IInv, TypeOK, Phases, ServesWithinTheModel,
     GrantedTokens, SequenceFits, NothingYet, WithinTheLease,
     NothingFailsLate, ShortResponsesNeedNoReader

LEMMA TurnAwayStep == IInv /\ TurnAway => IInv'
BY DEF TurnAway, IInv, TypeOK, Phases, ServesWithinTheModel, GrantedTokens,
   SequenceFits, NothingYet, WithinTheLease, NothingFailsLate,
   DefaultsAreServed, ShortResponsesNeedNoReader

LEMMA SubmitPromptStep == IInv /\ SubmitPrompt => IInv'
<1> SUFFICES ASSUME IInv, SubmitPrompt PROVE IInv'
  OBVIOUS
<1>1. /\ request.prompt \in Nat /\ maxTokens \in Nat
      /\ args.maxSeqLen \in Nat /\ args.maxNewTokens \in Nat
      /\ args.maxSeqLen <= ContextWindow
      /\ args.maxNewTokens < args.maxSeqLen
      /\ maxTokens <= args.maxNewTokens
      /\ phase = "valid"
  BY DEF IInv, TypeOK, ServesWithinTheModel, ValidArgs, GrantedTokens,
     SubmitPrompt
<1>2. request.prompt > 0 /\ request.prompt + maxTokens <= args.maxSeqLen
  BY <1>1 DEF SubmitPrompt, PromptFits, SaturatingAdd, Smaller
<1>3. phase' = "queued"
  BY <1>1 DEF SubmitPrompt, AddFits
<1>4. ChannelCapacity \in Nat /\ ChannelCapacity' = ChannelCapacity
  BY <1>1 DEF ChannelCapacity, Smaller, Larger, SubmitPrompt
<1> QED
  BY <1>1, <1>2, <1>3, <1>4 DEF SubmitPrompt, IInv, TypeOK, Phases,
     ServesWithinTheModel, GrantedTokens, RequestedTokens, SequenceFits,
     NothingYet, WithinTheLease, NothingFailsLate, DefaultsAreServed,
     ShortResponsesNeedNoReader

\* What every state after submit_prompt knows of the lengths.
LEMMA AcceptedLengths ==
  ASSUME IInv, phase \in {"queued", "admitted", "running"}
  PROVE  /\ request.prompt \in Nat /\ maxTokens \in Nat
         /\ args.maxSeqLen \in Nat /\ args.maxNewTokens \in Nat
         /\ request.prompt > 0 /\ maxTokens > 0
         /\ maxTokens <= args.maxNewTokens
         /\ request.prompt + maxTokens <= args.maxSeqLen
         /\ args.maxSeqLen <= ModelPositions
         /\ args.maxSeqLen <= ContextWindow
BY DEF IInv, TypeOK, ServesWithinTheModel, ValidArgs, GrantedTokens,
   SequenceFits

\* validate_request and has_room_for accept what the API accepted.
LEMMA AcceptedIsAdmissible ==
  ASSUME IInv, phase = "queued" PROVE Admissible
<1>1. AddFits(request.prompt, maxTokens)
  BY AcceptedLengths DEF AddFits
<1>2. /\ request.prompt + maxTokens <= SlabLength
      /\ args.mode = "continuous" => SlabLength = args.maxSeqLen
  BY AcceptedLengths DEF SlabLength, SaturatingAdd, Smaller, Larger
<1> QED
  BY <1>1, <1>2, AcceptedLengths
     DEF Admissible, ValidRequest, HasRoomFor, Smaller

LEMMA AdmitStep == IInv /\ Admit => IInv'
<1> SUFFICES ASSUME IInv, Admit PROVE IInv'
  OBVIOUS
<1>1. phase = "queued" /\ phase' = "admitted"
      /\ lease' = request.prompt + maxTokens
  BY AcceptedIsAdmissible DEF Admit
<1>2. ChannelCapacity' = ChannelCapacity
  BY DEF ChannelCapacity, Admit
<1> QED
  BY <1>1, <1>2, AcceptedLengths DEF Admit, IInv, TypeOK, Phases,
     ServesWithinTheModel, GrantedTokens, RequestedTokens, SequenceFits,
     NothingYet, WithinTheLease, NothingFailsLate, DefaultsAreServed,
     ShortResponsesNeedNoReader

LEMMA PrefillStep == IInv /\ Prefill => IInv'
<1> SUFFICES ASSUME IInv, Prefill PROVE IInv'
  OBVIOUS
<1>1. phase = "admitted" /\ lease = request.prompt + maxTokens
  BY DEF Prefill, IInv, WithinTheLease
<1>2. phase' = "running" /\ cached' = request.prompt - 1
  BY <1>1, AcceptedLengths DEF Prefill, PrefillFails,
     PrefilledTokens, Larger
<1>3. ChannelCapacity' = ChannelCapacity
  BY DEF ChannelCapacity, Prefill
<1> QED
  BY <1>1, <1>2, <1>3, AcceptedLengths DEF Prefill, IInv, TypeOK, Phases,
     ServesWithinTheModel, GrantedTokens, RequestedTokens, SequenceFits,
     NothingYet, WithinTheLease, NothingFailsLate, DefaultsAreServed,
     ShortResponsesNeedNoReader

\* The position stays below the model's limit and the cache below the lease.
LEMMA AcceptedDecodes ==
  ASSUME IInv, phase = "running" PROVE ~ForwardFails
<1>1. /\ cached = request.prompt - 1 + generated
      /\ generated \in Nat /\ generated < maxTokens
      /\ lease = request.prompt + maxTokens
  BY DEF IInv, WithinTheLease, TypeOK
<1> QED
  BY <1>1, AcceptedLengths DEF ForwardFails, AttendedTokens,
     DecodePosition, Larger

\* A short response cannot fill its channel.
LEMMA ShortResponsesFit ==
  ASSUME IInv, phase = "running", NEW eos \in BOOLEAN,
         maxTokens < ResponseChannelCapacity
  PROVE  Fits(eos)
<1>1. /\ channel.capacity = maxTokens + 1
      /\ channel.buffered \in Nat
      /\ channel.buffered <= generated
      /\ generated \in Nat /\ generated < maxTokens
  BY AcceptedLengths
     DEF IInv, SequenceFits, WithinTheLease, TypeOK, ChannelCapacity, Smaller,
     Larger
<1> QED
  BY <1>1, AcceptedLengths DEF Fits, Items, Last

LEMMA DecodeStep == ASSUME NEW eos \in BOOLEAN, IInv, Decode(eos) PROVE IInv'
<1>1. phase = "running" /\ ~ForwardFails
  BY AcceptedDecodes DEF Decode
<1>2. /\ cached' = cached + 1 /\ generated' = generated + 1
      /\ UNCHANGED <<args, request, maxTokens, lease>>
  BY <1>1 DEF Decode, AttendedTokens
<1>3. ChannelCapacity' = ChannelCapacity
  BY <1>2 DEF ChannelCapacity
<1>4. CASE ~Fits(eos)
  <2>1. phase' = "evicted" /\ channel' = channel
    BY <1>1, <1>4 DEF Decode
  <2>2. maxTokens >= ResponseChannelCapacity
    BY <1>1, <1>4, ShortResponsesFit, AcceptedLengths
  <2> QED
    BY <1>1, <1>2, <2>1, <2>2 DEF IInv, TypeOK, Phases, ServesWithinTheModel,
       GrantedTokens, SequenceFits, NothingYet, WithinTheLease,
       NothingFailsLate, DefaultsAreServed, ShortResponsesNeedNoReader
<1>5. CASE Fits(eos)
  <2>1. /\ phase' = IF Last(eos) THEN "answered" ELSE "running"
        /\ channel' = [channel EXCEPT !.buffered = @ + Items(eos)]
    BY <1>1, <1>5 DEF Decode
  <2>2. Items(eos) \in Nat /\ (~Last(eos) => Items(eos) = 1)
    BY DEF Items, Last
  <2>3. /\ channel' \in [capacity : Nat, buffered : Nat]
        /\ channel'.capacity = channel.capacity
        /\ channel'.buffered = channel.buffered + Items(eos)
    BY <2>1, <2>2 DEF IInv, TypeOK
  <2>4. TypeOK'
    <3>1. phase' \in Phases
      BY <2>1 DEF Phases
    <3> QED
      BY <1>2, <2>3, <3>1 DEF IInv, TypeOK
  <2>5. CASE Last(eos)
    BY <1>1, <1>2, <2>1, <2>4, <2>5 DEF IInv, ServesWithinTheModel,
       GrantedTokens, SequenceFits, NothingYet, WithinTheLease,
       NothingFailsLate, DefaultsAreServed, ShortResponsesNeedNoReader
  <2>6. CASE ~Last(eos)
    <3>1. phase' = "running" /\ generated' < maxTokens'
      BY <1>2, <2>1, <2>6 DEF Last, IInv, TypeOK
    <3>2. WithinTheLease'
      BY <1>1, <1>2, <2>2, <2>3, <2>6, <3>1, AcceptedLengths
         DEF IInv, WithinTheLease, TypeOK
    <3> QED
      BY <1>1, <1>2, <1>3, <2>3, <2>4, <3>1, <3>2 DEF IInv,
         ServesWithinTheModel, GrantedTokens, RequestedTokens, SequenceFits,
         NothingYet, NothingFailsLate, DefaultsAreServed,
         ShortResponsesNeedNoReader
  <2> QED
    BY <2>5, <2>6
<1> QED
  BY <1>4, <1>5

LEMMA ReadStep == IInv /\ Read => IInv'
<1> SUFFICES ASSUME IInv, Read PROVE IInv'
  OBVIOUS
<1>1. /\ channel' \in [capacity : Nat, buffered : Nat]
      /\ channel'.capacity = channel.capacity
      /\ channel'.buffered = channel.buffered - 1
      /\ channel.buffered > 0
  BY DEF Read, IInv, TypeOK
<1>2. WithinTheLease'
  BY <1>1 DEF Read, IInv, TypeOK, WithinTheLease
<1>3. ChannelCapacity' = ChannelCapacity
  BY DEF ChannelCapacity, Read
<1>4. TypeOK'
  BY <1>1 DEF Read, IInv, TypeOK
<1>5. SequenceFits' /\ NothingYet'
  BY <1>1, <1>3 DEF Read, IInv, TypeOK, SequenceFits, NothingYet
<1> QED
  BY <1>2, <1>3, <1>4, <1>5 DEF Read, IInv, ServesWithinTheModel, ValidArgs,
     GrantedTokens, RequestedTokens, NothingFailsLate, DefaultsAreServed,
     ShortResponsesNeedNoReader

LEMMA StutterStep == IInv /\ UNCHANGED vars => IInv'
BY DEF vars, IInv, TypeOK, ServesWithinTheModel, ValidArgs, GrantedTokens,
   RequestedTokens, SequenceFits, ChannelCapacity, NothingYet, WithinTheLease,
   NothingFailsLate, DefaultsAreServed, ShortResponsesNeedNoReader

\* Every reachable state satisfies the inductive invariant, for all limits.
THEOREM LimitsInvariant == Spec => []IInv
<1>1. IInv /\ [Next]_vars => IInv'
  BY StartStep, ReceiveStep, RejectPromptStep, TurnAwayStep, SubmitPromptStep,
     AdmitStep, PrefillStep, DecodeStep, ReadStep, StutterStep DEF Next
<1> QED
  BY InitIInv, <1>1, PTL DEF Spec

\* A request the API accepted is never refused by the scheduler, the lease or
\* the model (validate_request, allocate, write, prefill, forward).
THEOREM AcceptedRequestsNeverFail == Spec => []NothingFailsLate
BY LimitsInvariant, PTL DEF IInv

\* A started server serves a one-token prompt with default options
\* (ServeArgs::validate, validate_options, submit_prompt).
THEOREM DefaultRequestsAreServed == Spec => []DefaultsAreServed
BY LimitsInvariant, PTL DEF IInv

\* Only a response of RESPONSE_CHANNEL_CAPACITY tokens or more can find its
\* channel full (submit_prompt, try_send_tokens).
THEOREM OnlyLongResponsesAreEvicted == Spec => []ShortResponsesNeedNoReader
BY LimitsInvariant, PTL DEF IInv
=============================================================================
