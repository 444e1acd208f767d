------------------------------ MODULE QMIVoice ------------------------------
(***************************************************************************)
(* The QMI voice service (qcom/voice*.go) in the notation of QMIWire: calls*)
(* and their details, DTMF, USSD, configuration, supplementary services and*)
(* their indications. A definition has the name of the Go type or function *)
(* it translates.                                                          *)
(***************************************************************************)
EXTENDS QMIWire, TLC

voiceNumberMax == 81
voiceSIPURIOverflowMax == 47
voiceSIPURIMax == 128
voiceCallInfoMax == 7
voiceUSSDDataMax == 182
voiceDTMFDigitsMax == 32
voiceForwardHistoryMax == 512
voiceFlashPayloadMax == 81

voiceResultRequest(puts) == Tell(puts)
voiceUint64TLV(id) == Opt(id, U64)
parseVoiceOptionalUint8(id) == May(id, Fixed(1))
parseVoiceOptionalUint16(id) == May(id, Fixed(2))
parseVoiceOptionalUint32(id) == May(id, Fixed(4))
decodeVoiceUint16Array(prefix) == Array(prefix, prefix, 2, NoMax)

(***************************************************************************)
(* The details of calls, one array of records per TLV (voice.go). The byID *)
(* lookup that joins them leaves the calls it does not find alone.         *)
(***************************************************************************)
\* A header of h bytes whose last is the length of what follows, in units.
voiceCallEntry(h, unit, max) ==
  <<Room(h), Count(h - 1, 1), Take(h), Top(max), RoomN(0, unit), TakeN(0, unit)>>
voiceCallEntries(entry) ==
  <<Room(1), Count(0, 1), Take(1), Top(voiceCallInfoMax), Each(entry), End>>
applyVoiceCallRecords(recordSize) ==
  <<Room(1), Count(0, 1), Take(1), Top(voiceCallInfoMax), ExactlyN(0, recordSize),
    Each(<<Take(recordSize)>>)>>
applyVoiceCallStrings(maxLength) == voiceCallEntries(voiceCallEntry(2, 1, maxLength))
applyVoiceCallUTF16(maxLength) == voiceCallEntries(voiceCallEntry(2, 2, maxLength))
applyVoiceCallerNames == voiceCallEntries(voiceCallEntry(4, 1, 182))
decodeVoiceSingleCallerName == Array(3, 1, 1, 182)
VoiceCalls_unmarshalDetails(kinds) ==
  <<May(kinds.name, applyVoiceCallerNames), May(kinds.endReason, applyVoiceCallRecords(3)),
    May(kinds.audio, applyVoiceCallRecords(9)), May(kinds.video, applyVoiceCallRecords(9)),
    May(kinds.sipURI, applyVoiceCallStrings(voiceSIPURIMax)),
    May(kinds.ipName, applyVoiceCallUTF16(128))>>
    \o (IF kinds.namePI = 0 THEN <<>> ELSE <<May(kinds.namePI, applyVoiceCallRecords(2))>>)
    \o <<May(kinds.endText, applyVoiceCallUTF16(128))>>
    \o (IF kinds.secure = 0 THEN <<>> ELSE <<May(kinds.secure, applyVoiceCallRecords(2))>>)
    \o <<May(kinds.sipError, applyVoiceCallRecords(3)), May(kinds.rtt, applyVoiceCallRecords(5))>>
voiceCallDetailTLVs(callsTLV) ==
  IF callsTLV = \h01
  THEN [name |-> \h11, endReason |-> \h14, audio |-> \h1B, video |-> \h1C, sipURI |-> \h1E,
        ipName |-> \h2D, endText |-> \h2E, namePI |-> \h2F, secure |-> \h32,
        sipError |-> \h33, rtt |-> \h38]
  ELSE [name |-> \h12, endReason |-> \h18, audio |-> \h1F, video |-> \h20, sipURI |-> \h22,
        ipName |-> \h27, endText |-> \h28, namePI |-> 0, secure |-> 0,
        sipError |-> \h2A, rtt |-> \h2E]
VoiceCalls_unmarshalTLVs(callsTLV, numbersTLV) ==
  <<Only(callsTLV, Array(1, 1, 7, voiceCallInfoMax)),
    May(numbersTLV, voiceCallEntries(voiceCallEntry(3, 1, voiceNumberMax)))>>
    \o VoiceCalls_unmarshalDetails(voiceCallDetailTLVs(callsTLV))
VoiceCalls_UnmarshalTLVs == VoiceCalls_unmarshalTLVs(\h10, \h11)
voiceGetAllCallsResponse == VoiceCalls_UnmarshalTLVs
voiceAllCallStatusIndication == VoiceCalls_unmarshalTLVs(\h01, \h10)
VoiceCall ==
  <<Must(\h10, Fixed(5)), May(\h11, Array(2, 1, 1, voiceNumberMax)), May(\h13, Fixed(1)),
    May(\h15, decodeVoiceSingleCallerName), May(\h1C, Fixed(8)), May(\h1D, Fixed(8)),
    May(\h1F, <<AtMost(voiceSIPURIMax)>>), May(\h20, Fixed(1)),
    May(\h23, decodeVoiceUint16Array(1)), May(\h24, decodeVoiceUint16Array(1)),
    May(\h26, Fixed(2)), May(\h28, Fixed(4))>>
VoiceDTMFEvent ==
  <<Must(\h01, Array(3, 1, 1, 64)), parseVoiceOptionalUint8(\h10),
    parseVoiceOptionalUint8(\h11), parseVoiceOptionalUint16(\h12)>>

(***************************************************************************)
(* USSD (voice.go, voice_ussd.go).                                         *)
(***************************************************************************)
VoiceUSSDData_MarshalBinary == <<Vet, Raw(1), Pre(1, 1, voiceUSSDDataMax)>>
VoiceUSSDData_UnmarshalBinary ==
  <<Room(2), Peek(1), Judged, Count(1, 1), Top(voiceUSSDDataMax), ExactlyN(2, 1),
    PeekN(2, 1)>>
VoiceAlphaIdentifier_MarshalBinary == <<Vet, Raw(1), Pre(1, 1, 255)>>
VoiceAlphaIdentifier_UnmarshalBinary ==
  <<Room(2), Peek(1), Judged, Count(1, 1), ExactlyN(2, 1), PeekN(2, 1)>>
VoiceUSSDResult ==
  <<May(\h10, Fixed(2)), May(\h11, VoiceAlphaIdentifier_UnmarshalBinary),
    May(\h12, VoiceUSSDData_UnmarshalBinary), May(\h13, Fixed(1)), May(\h14, Fixed(1)),
    May(\h15, Fixed(1)), May(\h16, decodeVoiceUint16Array(1)), May(\h18, Fixed(2))>>
VoiceUSSDEvent ==
  <<Must(\h01, Fixed(1)), May(\h10, VoiceUSSDData_UnmarshalBinary),
    May(\h11, decodeVoiceUint16Array(1)), May(\h12, decodeVoiceUint16Array(2)),
    May(\h13, Fixed(2))>>
VoiceUSSDNoWaitResult ==
  <<May(\h10, Fixed(2)), May(\h11, Fixed(2)), May(\h12, VoiceUSSDData_UnmarshalBinary),
    May(\h13, VoiceAlphaIdentifier_UnmarshalBinary), May(\h14, decodeVoiceUint16Array(1)),
    May(\h15, decodeVoiceUint16Array(2)), May(\h16, Fixed(2))>>
\* The retry after QMIErrorInvalidClientID is that of every call (QcomClient).
voiceOriginateUSSDNoWait(parts) == Tell(<<Put(\h01, parts)>>) \o Await(VoiceUSSDNoWaitResult)
VoiceUSSDCalls ==
  [VoiceOriginateUSSDNoWait |-> voiceOriginateUSSDNoWait(VoiceUSSDData_MarshalBinary)]

(***************************************************************************)
(* Calls, DTMF and indications (voice.go). A number of more than 81        *)
(* characters goes on in a second TLV.                                     *)
(***************************************************************************)
validateVoiceDTMFDigits(maxLength) == <<Vet, Raw(1), Pre(1, 1, maxLength)>>
voiceIndicationConfig == Cases({<<Put(id, Bool)>> : id \in \h10 .. \h18 \union {\h20}})
acquireVoiceIndication == Maybe(voiceResultRequest(<<voiceIndicationConfig>>))
releaseVoiceIndication == Maybe(Cleanup(<<voiceIndicationConfig>>))
watchVoice(rules) == acquireVoiceIndication \o Watch(rules, "stop") \o releaseVoiceIndication
VoiceDialCall ==
  [VoiceDial |->
     Ask(<<Check, Put(\h01, <<Within(0, 1, voiceNumberMax)>>), Opt(\h10, U8), Opt(\h11, U8),
           Opt(\h14, U8), Opt(\h16, U32), Opt(\h17, <<Within(0, 1, voiceSIPURIOverflowMax)>>),
           voiceUint64TLV(\h18), voiceUint64TLV(\h19), Opt(\h1A, U32), Opt(\h20, Bool),
           Opt(\h21, U8), Opt(\h22, Bool), Opt(\h23, U32),
           Opt(\h24, <<Vet, Free(voiceNumberMax)>>), Opt(\h25, Bool)>>,
         <<Must(\h10, Fixed(1))>>)]
VoiceControlCalls ==
  [VoiceEnd |-> voiceResultRequest(<<Put(\h01, U8), Opt(\h10, U32)>>),
   VoiceAnswer |->
     voiceResultRequest(
       <<Put(\h01, U8), Opt(\h10, U8), voiceUint64TLV(\h11), voiceUint64TLV(\h12),
         Opt(\h13, U32), Opt(\h15, U8), Opt(\h16, U32), Opt(\h17, U16), Opt(\h18, U8),
         Opt(\h19, U32)>>),
   VoiceGetAllCalls |-> Ask(<<>>, voiceGetAllCallsResponse)]
VoiceRegistrationCalls ==
  [VoiceSetIndicationReport |->
     voiceResultRequest(Opts(<<\h10, \h11, \h12, \h13, \h14, \h15, \h16, \h17, \h18, \h20>>,
                             Bool)),
   VoiceWatchCalls |-> watchVoice(voiceAllCallStatusIndication)]
VoiceDTMFCalls ==
  [VoiceManage |-> voiceResultRequest(<<Put(\h01, U8), Opt(\h10, U8), Opt(\h11, U32)>>),
   VoiceBurstDTMF |->
     voiceResultRequest(<<Put(\h01, validateVoiceDTMFDigits(voiceDTMFDigitsMax)),
                          Opt(\h10, <<Raw(2)>>)>>),
   VoiceStartDTMF |-> voiceResultRequest(<<Check, Put(\h01, <<Raw(2)>>)>>),
   VoiceStopDTMF |-> voiceResultRequest(<<Put(\h01, U8)>>),
   VoiceOriginateUSSD |->
     DecodeFirst(<<Put(\h01, VoiceUSSDData_MarshalBinary)>>, VoiceUSSDResult),
   VoiceAnswerUSSD |-> voiceResultRequest(<<Put(\h01, VoiceUSSDData_MarshalBinary)>>),
   VoiceCancelUSSD |-> voiceResultRequest(<<>>),
   VoiceBindSubscription |-> voiceResultRequest(<<Check, Put(\h01, U8)>>)]
\* The USSD watch also reads release indications, which have nothing to decode.
VoiceWatchCallsGroup ==
  [VoiceWatchDTMF |-> watchVoice(VoiceDTMFEvent),
   VoiceWatchUSSD |-> watchVoice(VoiceUSSDEvent)]

(***************************************************************************)
(* Configuration (voice_config.go). A response outcome that is not zero is *)
(* an error.                                                               *)
(***************************************************************************)
voiceSetALS == Tell(<<Put(\h01, U8)>>)
voiceALSValue == Ask(<<>>, <<Must(\h10, Fixed(1))>>)
VoiceConfig ==
  <<parseVoiceOptionalUint8(\h10), parseVoiceOptionalUint8(\h13),
    parseVoiceOptionalUint8(\h16), parseVoiceOptionalUint8(\h17),
    parseVoiceOptionalUint8(\h18)>>
VoiceSetConfigCall ==
  [VoiceSetConfig |->
     Ask(<<Opt(\h10, Bool), Opt(\h13, <<Vet, Raw(1)>>), Opt(\h15, <<Vet, Raw(1)>>),
           Opt(\h16, <<Vet, Raw(1)>>)>>,
         Mays(<<\h10, \h13, \h15, \h16>>, Append(Fixed(1), Judged)))]
VoiceConfigCall ==
  [VoiceConfig |->
     Ask(<<Put(\h10, U8), Put(\h13, U8), Put(\h16, U8), Put(\h18, U8), Put(\h19, U8)>>,
         VoiceConfig)]
VoicePrivacyCalls ==
  [VoiceSetPreferredPrivacy |-> Tell(<<Check, Put(\h01, U8)>>),
   VoiceSetALSLineSwitching |-> voiceSetALS,
   VoiceSelectALSLine |-> Tell(<<Check, Put(\h01, U8)>>)]
VoiceALSCalls ==
  [VoiceALSLineSwitching |-> voiceALSValue,
   VoiceALSSelectedLine |-> voiceALSValue \o Judge]

(***************************************************************************)
(* Indications of supplementary services, codecs and handovers             *)
(* (voice_status.go).                                                      *)
(***************************************************************************)
VoiceSupplementaryNotification ==
  <<Must(\h01, Fixed(2)), parseVoiceOptionalUint16(\h10),
    May(\h11, Array(3, 1, 1, voiceNumberMax)), parseVoiceOptionalUint32(\h12),
    May(\h13, Append(decodeVoiceUint16Array(2), Top(voiceForwardHistoryMax))),
    May(\h14, Fixed(8))>>
\* The number's length is the third byte of a record, a timer follows it.
voiceForwardingRecords ==
  <<Room(1), Count(0, 1), Top(13), Take(1),
    Each(<<Room(4), Count(2, 1), Top(voiceNumberMax), RoomN(4, 1), TakeN(4, 1)>>), End>>
decodeVoiceCallForwardingInfo == voiceForwardingRecords
decodeVoiceBarredNumbers ==
  <<Room(1), Count(0, 1), Top(50), Take(1), Each(voiceCallEntry(1, 1, voiceNumberMax)), End>>
VoiceSupplementaryResultEvent ==
  <<Must(\h01, Fixed(2)), parseVoiceOptionalUint8(\h10), parseVoiceOptionalUint8(\h11),
    May(\h12, <<AtMost(voiceNumberMax)>>), parseVoiceOptionalUint8(\h13),
    May(\h14, VoiceUSSDData_UnmarshalBinary), parseVoiceOptionalUint8(\h15),
    May(\h16, VoiceAlphaIdentifier_UnmarshalBinary), May(\h17, Fixed(4)), May(\h18, Fixed(8)),
    parseVoiceOptionalUint8(\h19), parseVoiceOptionalUint16(\h1A),
    May(\h1B, decodeVoiceCallForwardingInfo)>>
    \o Mays(<<\h1C, \h1D, \h1E, \h1F, \h20>>, Fixed(2))
    \o <<May(\h21, Append(decodeVoiceUint16Array(1), Top(voiceUSSDDataMax))),
         parseVoiceOptionalUint32(\h22), May(\h23, decodeVoiceBarredNumbers)>>
VoiceSpeechCodecInfo ==
  <<parseVoiceOptionalUint32(\h10), parseVoiceOptionalUint32(\h11),
    parseVoiceOptionalUint32(\h12), parseVoiceOptionalUint8(\h13)>>
VoiceHandover == <<Must(\h01, Fixed(4)), parseVoiceOptionalUint32(\h10)>>
VoicePrivacyInfo == <<Must(\h01, Fixed(2))>>
VoiceTTYMode == <<Must(\h01, Fixed(1))>>
watchVoiceTLVs(rules) == watchVoice(rules)
VoiceNotificationCall ==
  [VoiceWatchSupplementaryNotifications |-> watchVoiceTLVs(VoiceSupplementaryNotification)]
VoiceStatusCalls ==
  [VoiceWatchSupplementaryResults |-> watchVoiceTLVs(VoiceSupplementaryResultEvent),
   VoiceWatchSpeechCodec |-> watchVoiceTLVs(VoiceSpeechCodecInfo),
   VoiceWatchHandover |-> watchVoiceTLVs(VoiceHandover),
   VoiceWatchPrivacy |-> watchVoiceTLVs(VoicePrivacyInfo),
   VoiceWatchTTY |-> watchVoiceTLVs(VoiceTTYMode)]

(***************************************************************************)
(* Supplementary services (voice_supplementary.go). The response is decoded*)
(* before its result is judged: a failure carries its cause.               *)
(***************************************************************************)
voiceSupplementaryRead(puts, rules) == DecodeFirst(puts, rules)
encodeVoiceSupplementaryQuery == <<Opt(\h10, U8), Opt(\h11, U32)>>
voiceSupplementaryQuery(rules) == voiceSupplementaryRead(encodeVoiceSupplementaryQuery, rules)
validVoicePassword == <<Vet, Raw(4)>>
VoiceSupplementaryResult_unmarshalTLVs(failure, status, retry, sip) ==
  <<parseVoiceOptionalUint16(failure)>>
    \o (IF status = 0 THEN <<>> ELSE <<May(status, Fixed(2))>>)
    \o <<parseVoiceOptionalUint16(retry), parseVoiceOptionalUint16(sip)>>
decodeVoiceServiceClasses == <<May(\h10, Fixed(1)), May(\h16, Fixed(4))>>
VoiceCallWaitingStatus ==
  VoiceSupplementaryResult_unmarshalTLVs(\h11, 0, \h17, \h19)
    \o decodeVoiceServiceClasses \o <<May(\h1A, Fixed(2))>>
VoiceCallBarringStatus ==
  VoiceSupplementaryResult_unmarshalTLVs(\h11, 0, \h18, \h1A) \o decodeVoiceServiceClasses
VoiceLineStatus == VoiceSupplementaryResult_unmarshalTLVs(\h11, \h10, \h16, \h18)
VoiceCOLRStatus ==
  VoiceSupplementaryResult_unmarshalTLVs(\h11, \h10, \h17, \h19)
    \o <<parseVoiceOptionalUint32(\h16)>>
voiceBarringPasswordResult == VoiceSupplementaryResult_unmarshalTLVs(\h10, 0, \h15, \h17)
voiceSetSupplementaryResponse ==
  VoiceSupplementaryResult_unmarshalTLVs(\h10, \h15, \h17, \h18)
decodeVoiceForwardingLegacy == voiceForwardingRecords
decodeVoiceForwardingExtended(classLength) ==
  <<Room(1), Count(0, 1), Top(13), Take(1),
    Each(voiceCallEntry(1 + classLength + 1 + 4 + 1, 1, voiceNumberMax)), End>>
VoiceCallForwardingRules ==
  <<Else(\h17, decodeVoiceForwardingExtended(4)), Else(\h16, decodeVoiceForwardingExtended(1)),
    Else(\h10, decodeVoiceForwardingLegacy)>>
VoiceCallForwardingStatus ==
  VoiceSupplementaryResult_unmarshalTLVs(\h11, 0, \h18, \h1D) \o VoiceCallForwardingRules
VoiceSetSupplementaryCalls ==
  [VoiceSendFlash |->
     voiceResultRequest(<<Put(\h01, U8), Opt(\h10, <<Free(voiceFlashPayloadMax)>>),
                          Opt(\h11, <<Vet, Raw(1)>>)>>),
   VoiceSetSupplementaryService |->
     DecodeFirst(<<Put(\h01, <<Raw(2)>>), Opt(\h10, U8), Opt(\h11, validVoicePassword),
                   Opt(\h12, <<Vet, Free(voiceNumberMax)>>), Opt(\h13, U8), Opt(\h15, U32)>>,
                 voiceSetSupplementaryResponse)]
voiceLineStatus == voiceSupplementaryRead(<<>>, VoiceLineStatus)
VoiceQueryCalls ==
  [VoiceCallWaiting |-> voiceSupplementaryQuery(VoiceCallWaitingStatus),
   VoiceCallBarring |->
     voiceSupplementaryRead(<<Put(\h01, U8)>> \o encodeVoiceSupplementaryQuery,
                            VoiceCallBarringStatus),
   VoiceCLIP |-> voiceLineStatus,
   VoiceCLIRStatus |-> voiceLineStatus,
   VoiceCOLP |-> voiceLineStatus,
   VoiceCOLR |-> voiceSupplementaryRead(<<>>, VoiceCOLRStatus),
   VoiceCNAP |-> voiceLineStatus]
VoiceForwardingCalls ==
  [VoiceCallForwarding |->
     voiceSupplementaryRead(<<Put(\h01, U8)>> \o encodeVoiceSupplementaryQuery,
                            VoiceCallForwardingStatus),
   VoiceSetCallBarringPassword |->
     voiceSupplementaryRead(
       <<Put(\h01, <<Raw(1)>> \o validVoicePassword \o validVoicePassword \o <<Raw(4)>>)>>,
       voiceBarringPasswordResult)]

\* Types of the package that no method of the client uses.
VoiceTypes ==
  [VoiceCall |-> Watch(VoiceCall, "stop"),
   VoiceAlphaIdentifier |-> Tell(<<Put(\h01, VoiceAlphaIdentifier_MarshalBinary)>>)]

VoiceServiceCalls ==
  VoiceUSSDCalls @@ VoiceDialCall @@ VoiceControlCalls @@ VoiceRegistrationCalls
    @@ VoiceDTMFCalls @@ VoiceWatchCallsGroup @@ VoiceSetConfigCall @@ VoiceConfigCall
    @@ VoicePrivacyCalls @@ VoiceALSCalls @@ VoiceNotificationCall @@ VoiceStatusCalls
    @@ VoiceSetSupplementaryCalls @@ VoiceQueryCalls @@ VoiceForwardingCalls @@ VoiceTypes
=============================================================================
