---------------------------- MODULE MBIMTLVTypes ----------------------------
(***************************************************************************)
(* The values that the mbim package carries in TLVs (tai.go, ladn.go,      *)
(* nssai.go, pco.go, ue_policy.go, route_selection.go, session_id.go,      *)
(* release_version.go, traffic_parameters.go, osid.go), in the notation of *)
(* MBIMWire. X_UnmarshalTLV tests the type of the TLV and decodes its data;*)
(* a Prefix decoder reads one element and leaves the rest. A definition has*)
(* the name of the Go type or function it translates.                      *)
(***************************************************************************)
EXTENDS MBIMWire, TLC

\* The data of the TLV is not empty, and elements until nothing is left.
NotEmpty(element) == <<Room(1), Left(element)>>

(***************************************************************************)
(* Tracking areas.                                                         *)
(***************************************************************************)
TAIList_validate == Judged
\* Lists of TACs with one PLMN, or of pairs of both; validate lets 16 through.
TAIList_MarshalBinary ==
  Cases({<<Put(0, <<Vet, Raw(5), Pre(1, 4, 16)>>)>>, <<Put(0, <<Vet, Raw(1), Pre(1, 8, 16)>>)>>})
unmarshalTAIListPrefix ==
  <<Room(1), Peek(1),
    OneOf({<<Room(6), Count(5, 1), RoomN(6, 4), PeekN(6, 4), TAIList_validate, TakeN(6, 4)>>,
           <<Room(2), Count(1, 1), RoomN(2, 8), PeekN(2, 8), TAIList_validate, TakeN(2, 8)>>,
           <<Refused>>})>>
TAIList_UnmarshalBinary == unmarshalTAIListPrefix \o <<End>>
NewTAITLV == <<Check, TAIList_MarshalBinary>> \o Send(<<TLV>>)
TAILists_UnmarshalTLV == <<Judged>> \o NotEmpty(unmarshalTAIListPrefix)

(***************************************************************************)
(* Local area data networks. The tracking areas of an element end at a byte*)
(* that cannot be the type of another list of them.                        *)
(***************************************************************************)
maximumLADNDNNLength == 102
marshalLADN(v) ==
  <<Check>>
    \o (IF v >= 4 THEN Send(<<TLV>>) ELSE Send(<<Vet, Pre(1, 1, maximumLADNDNNLength)>>))
    \o <<TAIList_MarshalBinary>>
unmarshalLADNPrefix(v) ==
  (IF v >= 4 THEN unmarshalTLVPrefix \o <<Judged, Inner(<<Judged>>)>>
   ELSE <<Room(1), Count(0, 1), Judged, RoomN(1, 1), PeekN(1, 1), TakeN(1, 1)>>)
    \o <<While(<<Peek(1)>> \o unmarshalTAIListPrefix), Judged>>
NewLADNTLV(v) == <<Check>> \o marshalLADN(v) \o Send(<<TLV>>)
LADNList_UnmarshalTLV(v) == <<Judged>> \o NotEmpty(unmarshalLADNPrefix(v))

(***************************************************************************)
(* Network slices. The length byte of an S-NSSAI decides its fields.       *)
(***************************************************************************)
SNSSAI_MarshalBinary == Check
\* A slice type, a differentiator, a mapped type and a mapped differentiator:
\* the length byte is one less than the length that results.
SNSSAI_marshalBinaryUnchecked ==
  Cases({<<Put(0, <<Raw(1), Raw(1), Here(1 + 1)>>)>>,
         <<Put(0, <<Raw(1), Raw(1), Raw(1), Here(2 + 1)>>)>>,
         <<Put(0, <<Raw(1), Raw(1), Raw(3), Here(4 + 1)>>)>>,
         <<Put(0, <<Raw(1), Raw(1), Raw(3), Raw(1), Here(5 + 1)>>)>>,
         <<Put(0, <<Raw(1), Raw(1), Raw(3), Raw(1), Raw(3), Here(8 + 1)>>)>>})
SNSSAIFields(length) ==
  (IF length \in {4, 5, 8} THEN <<Take(3)>> ELSE <<>>)
    \o (IF length \in {2, 5, 8} THEN <<Take(1)>> ELSE <<>>)
    \o (IF length = 8 THEN <<Take(3)>> ELSE <<>>)
SNSSAI_UnmarshalBinary ==
  <<Room(1), Peek(1),
    OneOf({<<Exactly(l + 1), Take(2)>> \o SNSSAIFields(l) : l \in {1, 2, 4, 5, 8}}
            \cup {<<Refused>>})>>
NewSingleNSSAITLV == <<SNSSAI_MarshalBinary, SNSSAI_marshalBinaryUnchecked>> \o Send(<<TLV>>)
OptionalSNSSAI_UnmarshalTLV == <<Judged, OneOf({<<End>>, SNSSAI_UnmarshalBinary})>>

marshalSNSSAIList == <<SNSSAI_MarshalBinary, SNSSAI_marshalBinaryUnchecked>>
\* Each element is decoded from its own slice of length bytes.
unmarshalSNSSAIList ==
  <<Left(<<Count(0, 1), RoomN(1, 1), PeekN(1, 1), Inner(SNSSAI_UnmarshalBinary), TakeN(1, 1)>>)>>
NewNSSAIListTLV == <<Check>> \o marshalSNSSAIList \o Send(<<TLV>>)
NSSAIList_UnmarshalTLV == <<Judged, Room(1)>> \o unmarshalSNSSAIList

RejectedSNSSAI_MarshalBinary ==
  <<Check, SNSSAI_MarshalBinary,
    Cases({<<Put(0, <<Raw(2), Raw(1), Here(1 + 2)>>)>>, <<Put(0, <<Raw(2), Raw(4), Here(4 + 2)>>)>>})>>
unmarshalRejectedSNSSAIPrefix ==
  <<Room(3), Peek(1),
    OneOf({<<Room(l + 2), Peek(2), Judged, Peek(l + 2), Inner(SNSSAI_UnmarshalBinary), Judged,
             Take(l + 2)>> : l \in {1, 4}} \cup {<<Refused>>})>>
RejectedSNSSAI_UnmarshalBinary == unmarshalRejectedSNSSAIPrefix \o <<End>>
NewRejectedNSSAITLV == <<Check>> \o RejectedSNSSAI_MarshalBinary \o Send(<<TLV>>)
RejectedNSSAIList_UnmarshalTLV == <<Judged>> \o NotEmpty(unmarshalRejectedSNSSAIPrefix)

marshalPreconfiguredDefaultNSSAIList == <<Check>> \o marshalSNSSAIList
PreconfiguredDefaultNSSAI_MarshalBinary ==
  <<Check>> \o marshalPreconfiguredDefaultNSSAIList \o Send(<<Raw(4), TLV>>)
\* The list is encoded again to see that it could be.
unmarshalPreconfiguredDefaultNSSAIPrefix ==
  <<Room(4), Peek(4), Judged, Take(4)>> \o unmarshalTLVPrefix
    \o <<Judged, Inner(unmarshalSNSSAIList), Judged>>
PreconfiguredDefaultNSSAI_UnmarshalBinary == unmarshalPreconfiguredDefaultNSSAIPrefix \o <<End>>
NewPreconfiguredDefaultNSSAITLV ==
  <<Check>> \o PreconfiguredDefaultNSSAI_MarshalBinary \o Send(<<TLV>>)
PreconfiguredDefaultNSSAIList_UnmarshalTLV ==
  <<Judged>> \o NotEmpty(<<Judged>> \o unmarshalPreconfiguredDefaultNSSAIPrefix \o <<Judged>>)

(***************************************************************************)
(* Protocol configuration options: an identifier, then a length of one byte*)
(* or, for some identifiers, of two.                                       *)
(***************************************************************************)
ipsFromOptions ==
  OneOf({<<>>, <<Inner(<<Whole(4), PeekN(0, 4)>>)>>, <<Inner(<<Whole(16), PeekN(0, 16)>>)>>})
ipv4LinkMTUFromOptions == OneOf({<<>>, <<Inner(Fixed(2))>>})
parseOptions == <<Some(<<ipsFromOptions>>), Some(<<ipsFromOptions>>), ipv4LinkMTUFromOptions>>
ProtocolConfigurationOptions_UnmarshalBinary ==
  <<Room(1), Peek(1), Take(1),
    Left(<<Room(3), Peek(2), Take(2), Peek(1),
           OneOf({<<Count(0, 1), Take(1)>>, <<Room(2), Count(0, 2), Take(2)>>}),
           RoomN(0, 1), TakeN(0, 1)>>)>>
    \o parseOptions

(***************************************************************************)
(* The route selection policy of the UE.                                   *)
(***************************************************************************)
URSPTrafficDescriptor_MarshalBinary == <<Put(0, <<Vet, Raw(1), Pre(2, 1, 65535)>>)>>
unmarshalURSPTrafficDescriptorPrefix ==
  <<Room(3), Count(1, 2), Judged, RoomN(3, 1), PeekN(3, 1), TakeN(3, 1)>>
URSPTrafficDescriptor_UnmarshalBinary == unmarshalURSPTrafficDescriptorPrefix \o <<End>>
marshalURSPTrafficDescriptors == <<Check>> \o URSPTrafficDescriptor_MarshalBinary
unmarshalURSPTrafficDescriptors == <<Left(unmarshalURSPTrafficDescriptorPrefix \o <<Judged>>)>>
NewURSPRulesTDOnlyTLV == marshalURSPTrafficDescriptors \o Send(<<TLV>>)
URSPRules_UnmarshalTLV == <<Judged>> \o unmarshalURSPTrafficDescriptors
validateURSPRulesTLVs == <<Some(<<Inner(URSPRules_UnmarshalTLV)>>), Judged>>
UEPolicyInfo_MarshalBinary == <<Check>> \o Send(<<TLVs>>)
UEPolicyInfo_UnmarshalBinary ==
  TLVs_UnmarshalBinary \o validateURSPRulesTLVs \o <<Some(<<Inner(URSPRules_UnmarshalTLV)>>)>>
UEPolicyRequest == <<Check>> \o Send(<<TLVs>>)
UEPolicyCall ==
  [UEPolicy |-> Query(<<Check>> \o UEPolicyRequest, UEPolicyInfo_UnmarshalBinary)]

\* Both lengths have 16 bits: of the contents, and of the descriptor, which is
\* three bytes longer.
RouteSelectionDescriptor_MarshalBinary ==
  <<Put(0, <<Vet, Raw(8), Raw(2), Raw(1), Pre(2, 1, 65535 - 3)>>)>>
\* n counts what the descriptor has above its minimum of four bytes.
unmarshalRouteSelectionDescriptorPrefix ==
  <<Room(10), Peek(8), Judged, Count(8, 2),
    OneOf({<<Refused>>, <<RoomN(14, 1), Peek(13), Judged, PeekN(14, 1), TakeN(14, 1)>>})>>
RouteSelectionDescriptor_UnmarshalBinary == unmarshalRouteSelectionDescriptorPrefix \o <<End>>
NewRouteSelectionDescriptorsTLV ==
  <<Check>> \o RouteSelectionDescriptor_MarshalBinary \o Send(<<TLV>>)
RouteSelectionDescriptors_UnmarshalTLV ==
  <<Judged>> \o NotEmpty(unmarshalRouteSelectionDescriptorPrefix)

(***************************************************************************)
(* Values of a fixed length, and the traffic parameters.                   *)
(***************************************************************************)
NewSessionIDTLV == Send(<<TLV>>)
SessionID_UnmarshalTLV == <<Judged>> \o Fixed(4)
New3GPPReleaseVersionTLV == <<Check>> \o Send(<<TLV>>)
ThreeGPPReleaseVersion_UnmarshalTLV == <<Judged>> \o Fixed(4) \o <<Judged>>
NewOSIDTLV == Send(<<TLV>>)
OSID_UnmarshalTLV == <<Judged>> \o Fixed(16)
TrafficParameters_MarshalBinary == <<Put(0, <<Pre(2, 1, 65535)>>)>>
TrafficParameters_UnmarshalBinary == Array(2, 2, 1, NoMax)
NewTrafficParametersTLV == TrafficParameters_MarshalBinary \o Send(<<TLV>>)
TrafficParameters_UnmarshalTLV == <<Judged>> \o TrafficParameters_UnmarshalBinary

\* Each type encoded and decoded by itself, as a user of the package does with
\* the TLVs of a request, a response or an indication.
Codec(puts, layout) == Tell(puts) \o NextIndication(layout)
TLVTypes ==
  [TAIList |-> Codec(<<TAIList_MarshalBinary>>, TAIList_UnmarshalBinary),
   TAILists |-> Codec(NewTAITLV, TAILists_UnmarshalTLV),
   LADNList |-> Either({Codec(NewLADNTLV(v), LADNList_UnmarshalTLV(v)) : v \in {3, 4}}),
   OptionalSNSSAI |-> Codec(NewSingleNSSAITLV, OptionalSNSSAI_UnmarshalTLV),
   NSSAIList |-> Codec(NewNSSAIListTLV, NSSAIList_UnmarshalTLV),
   RejectedSNSSAI |-> Codec(RejectedSNSSAI_MarshalBinary, RejectedSNSSAI_UnmarshalBinary),
   RejectedNSSAIList |-> Codec(NewRejectedNSSAITLV, RejectedNSSAIList_UnmarshalTLV),
   PreconfiguredDefaultNSSAI |->
     Codec(PreconfiguredDefaultNSSAI_MarshalBinary, PreconfiguredDefaultNSSAI_UnmarshalBinary),
   PreconfiguredDefaultNSSAIList |->
     Codec(NewPreconfiguredDefaultNSSAITLV, PreconfiguredDefaultNSSAIList_UnmarshalTLV),
   ProtocolConfigurationOptions |-> NextIndication(ProtocolConfigurationOptions_UnmarshalBinary),
   URSPTrafficDescriptor |->
     Codec(URSPTrafficDescriptor_MarshalBinary, URSPTrafficDescriptor_UnmarshalBinary),
   URSPRules |-> Codec(NewURSPRulesTDOnlyTLV, URSPRules_UnmarshalTLV),
   UEPolicyInfo |-> Tell(UEPolicyInfo_MarshalBinary),
   RouteSelectionDescriptor |->
     Codec(RouteSelectionDescriptor_MarshalBinary, RouteSelectionDescriptor_UnmarshalBinary),
   RouteSelectionDescriptors |->
     Codec(NewRouteSelectionDescriptorsTLV, RouteSelectionDescriptors_UnmarshalTLV),
   SessionID |-> Codec(NewSessionIDTLV, SessionID_UnmarshalTLV),
   ThreeGPPReleaseVersion |->
     Codec(New3GPPReleaseVersionTLV, ThreeGPPReleaseVersion_UnmarshalTLV),
   OSID |-> Codec(NewOSIDTLV, OSID_UnmarshalTLV),
   TrafficParameters |-> Codec(NewTrafficParametersTLV, TrafficParameters_UnmarshalTLV)]

TLVTypeCalls == UEPolicyCall @@ TLVTypes
=============================================================================
