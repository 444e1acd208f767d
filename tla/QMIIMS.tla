------------------------------- MODULE QMIIMS -------------------------------
(***************************************************************************)
(* The QMI IMS services (qcom/ims_settings.go, imsa.go, imsdcm.go, imsp.go,*)
(* imss.go) in the notation of QMIWire: settings, application status, data *)
(* connections, presence and test mode. A definition has the name of the Go*)
(* type or function it translates.                                         *)
(***************************************************************************)
EXTENDS QMIWire, TLC

imsPolicyManagerAPNCount == 6
imsPolicyManagerAPNMaxLength == 49
imsaRegistrationErrorMaxLength == 255
imsDCMMaxAPNLength == 100

(***************************************************************************)
(* Settings (ims_settings.go).                                             *)
(***************************************************************************)
imsSettingsRequest(puts, rules) == Ask(puts, rules)
decodeIMSSettingsError == May(\h10, Fixed(1))
decodeIMSByte(id) == May(id, Fixed(1))
decodeIMSBool(id) == decodeIMSByte(id)
IMSRegisterIndicationsRequest == Opts(<<\h1B, \h2D>>, Bool)
IMSPolicyManagerAPNs_MarshalBinary ==
  FlattenSeq([i \in 1 .. imsPolicyManagerAPNCount |->
                <<Vet, Pre(1, 1, imsPolicyManagerAPNMaxLength)>>])
IMSPolicyManagerAPNs_UnmarshalBinary ==
  FlattenSeq([i \in 1 .. imsPolicyManagerAPNCount |->
                <<Room(1), Count(0, 1), Take(1), Top(imsPolicyManagerAPNMaxLength),
                  RoomN(0, 1), TakeN(0, 1)>>]) \o <<End>>
IMSSetPolicyManagerSettingsRequest ==
  Opts(<<\h14, \h15, \h16, \h17>>, U8)
    \o <<Opt(\h18, U64), Opt(\h19, IMSPolicyManagerAPNs_MarshalBinary)>>
IMSGetPolicyManagerSettingsRequest == <<>>
IMSSetPolicyManagerSettingsResponse == <<decodeIMSSettingsError>>
\* The TLVs of the indication have the identifiers one below the response's.
IMSPolicyManagerSettings_unmarshalTLVs(ids) ==
  [i \in 1 .. 4 |-> decodeIMSByte(ids[i])]
    \o <<May(ids[5], Fixed(8)), May(ids[6], IMSPolicyManagerAPNs_UnmarshalBinary)>>
IMSGetPolicyManagerSettingsResponse ==
  <<decodeIMSSettingsError>>
    \o IMSPolicyManagerSettings_unmarshalTLVs(<<\h15, \h16, \h17, \h18, \h19, \h1A>>)
IMSPolicyManagerSettingsIndication ==
  IMSPolicyManagerSettings_unmarshalTLVs(<<\h14, \h15, \h16, \h17, \h18, \h19>>)
IMSSetServicesEnabledRequest ==
  Opts(<<\h10, \h11, \h14, \h18, \h19, \h1A, \h1C, \h1E, \h1F, \h20, \h21, \h25>>, Bool)
    \o <<Opt(\h15, <<Vet, Raw(4)>>)>>
IMSGetServicesEnabledRequest == <<>>
IMSSetServicesEnabledResponse == <<decodeIMSSettingsError>>
IMSGetServicesEnabledResponse ==
  <<decodeIMSSettingsError>>
    \o Mays(<<\h11, \h12, \h15, \h19, \h1A, \h1B, \h1D>>, Fixed(1))
IMSServicesEnabledIndication ==
  Mays(<<\h10, \h11, \h14, \h18, \h19, \h1A, \h1C, \h1E, \h1F, \h20, \h21, \h25>>, Fixed(1))
IMSBindRequest == <<Check, Put(\h01, U32)>>
setIMSSettingsIndicationRegistration ==
  Cases({<<Put(\h1B, Bool)>>, <<Put(\h2D, Bool)>>})
acquireIMSSettingsIndication ==
  Maybe(imsSettingsRequest(<<setIMSSettingsIndicationRegistration>>, <<>>))
releaseIMSSettingsIndication == Maybe(Cleanup(<<setIMSSettingsIndicationRegistration>>))
watchIMSSettingsTLVs(rules) ==
  acquireIMSSettingsIndication \o Watch(rules, "stop") \o releaseIMSSettingsIndication
IMSSettingsCalls ==
  [SetIMSPolicyManagerSettings |->
     imsSettingsRequest(IMSSetPolicyManagerSettingsRequest,
                        IMSSetPolicyManagerSettingsResponse),
   IMSRegisterIndications |-> imsSettingsRequest(IMSRegisterIndicationsRequest, <<>>),
   IMSPolicyManagerSettings |->
     imsSettingsRequest(IMSGetPolicyManagerSettingsRequest,
                        IMSGetPolicyManagerSettingsResponse),
   SetIMSServicesEnabled |->
     imsSettingsRequest(IMSSetServicesEnabledRequest, IMSSetServicesEnabledResponse),
   IMSServices |->
     imsSettingsRequest(IMSGetServicesEnabledRequest, IMSGetServicesEnabledResponse),
   IMSWatchPolicyManagerSettings |-> watchIMSSettingsTLVs(IMSPolicyManagerSettingsIndication),
   IMSWatchServicesEnabled |-> watchIMSSettingsTLVs(IMSServicesEnabledIndication),
   IMSBindSubscription |-> imsSettingsRequest(IMSBindRequest, <<>>)]

(***************************************************************************)
(* Application status (imsa.go).                                           *)
(***************************************************************************)
imsaRequest(puts, rules) == Ask(puts, rules)
decodeIMSAService(id) == May(id, Fixed(4))
decodeIMSARAT(id) == May(id, Fixed(4))
IMSAGetRegistrationStatusRequest == <<>>
IMSAGetServiceStatusRequest == <<>>
IMSARegisterIndicationsRequest == Opts(<<\h10, \h11>>, Bool)
validIMSASubscription == Check
IMSABindRequest == <<validIMSASubscription, Put(\h10, U32)>>
IMSAGetBindRequest == <<>>
IMSAGetBindResponse == <<Only(\h10, Fixed(4))>>
\* The status TLV is preferred to the flag of older modems.
IMSARegistrationStatusResponse ==
  <<First(\h12, Fixed(4)), May(\h10, Fixed(1)), May(\h11, Fixed(2)),
    May(\h13, <<AtMost(imsaRegistrationErrorMaxLength)>>), decodeIMSARAT(\h14)>>
IMSARegistrationStatusIndication ==
  <<First(\h11, Fixed(4)), May(\h01, Fixed(1)), May(\h10, Fixed(2)),
    May(\h12, <<AtMost(imsaRegistrationErrorMaxLength)>>), decodeIMSARAT(\h13)>>
IMSAStatus_unmarshalServiceTLVs ==
  <<decodeIMSAService(\h10), decodeIMSAService(\h11), decodeIMSAService(\h12),
    decodeIMSAService(\h16), decodeIMSAService(\h18), decodeIMSARAT(\h13),
    decodeIMSARAT(\h14), decodeIMSARAT(\h15), decodeIMSARAT(\h17), decodeIMSARAT(\h19)>>
IMSAServiceStatusResponse == IMSAStatus_unmarshalServiceTLVs
IMSAServiceStatusIndication == IMSAStatus_unmarshalServiceTLVs
imsaStatus ==
  Ask(IMSAGetRegistrationStatusRequest, IMSARegistrationStatusResponse)
    \o Ask(IMSAGetServiceStatusRequest, IMSAServiceStatusResponse)
setIMSAIndicationRegistration == Cases({<<Put(\h10, Bool)>>, <<Put(\h11, Bool)>>})
acquireIMSAIndication == Maybe(imsaRequest(<<setIMSAIndicationRegistration>>, <<>>))
releaseIMSAIndication == Maybe(Cleanup(<<setIMSAIndicationRegistration>>))
watchIMSATLVs(rules) ==
  acquireIMSAIndication \o Watch(rules, "stop") \o releaseIMSAIndication
IMSAStatusCalls == [IMSAStatus |-> imsaStatus]
IMSACalls ==
  [IMSARegisterIndications |-> imsaRequest(IMSARegisterIndicationsRequest, <<>>),
   IMSABindSubscription |-> imsaRequest(IMSABindRequest, <<>>),
   IMSABoundSubscription |-> imsaRequest(IMSAGetBindRequest, IMSAGetBindResponse),
   WatchIMSARegistrationStatus |-> watchIMSATLVs(IMSARegistrationStatusIndication),
   WatchIMSAServiceStatus |-> watchIMSATLVs(IMSAServiceStatusIndication)]

(***************************************************************************)
(* Data connections (imsdcm.go).                                           *)
(***************************************************************************)
imsDCMRequest(puts, rules) == Ask(puts, rules)
IMSDCMInstance_MarshalBinary == <<Vet, Raw(4)>>
IMSDCMInstance_UnmarshalBinary == Fixed(4) \o <<Judged>>
IMSDCMConnection_validate == Vet
IMSDCMConnection_MarshalBinary ==
  <<IMSDCMConnection_validate, Within(1, 1, imsDCMMaxAPNLength), Raw(16)>>
IMSDCMConnection_UnmarshalBinary ==
  <<Room(17), Count(0, 1), ExactlyN(17, 1), PeekN(17, 1), Judged>>
IMSDCMPDPActivateRequest ==
  <<Put(\h01, IMSDCMConnection_MarshalBinary), Opt(\h10, U32), Opt(\h11, U32),
    Opt(\h12, U32), Opt(\h13, IMSDCMInstance_MarshalBinary)>>
IMSDCMPDPActivateResponse ==
  <<May(\h10, Fixed(1)), May(\h11, Fixed(4)), May(\h12, IMSDCMInstance_UnmarshalBinary)>>
decodeIMSDCMAddress ==
  <<Room(5), Peek(4), Count(4, 1), ExactlyN(5, 1), PeekN(5, 1), Judged>>
IMSDCMPDPActivation ==
  <<Must(\h02, Fixed(4)), Must(\h01, Fixed(1)), May(\h10, Fixed(4)),
    May(\h11, decodeIMSDCMAddress), May(\h12, IMSDCMInstance_UnmarshalBinary)>>
IMSDCMPDPDeactivateRequest == <<Put(\h01, U8), Opt(\h10, IMSDCMInstance_MarshalBinary)>>
IMSDCMPDPDeactivateResponse ==
  <<May(\h10, Fixed(1)), May(\h11, IMSDCMInstance_UnmarshalBinary)>>
IMSDCMCalls ==
  [IMSDCMPDPActivate |-> imsDCMRequest(IMSDCMPDPActivateRequest, IMSDCMPDPActivateResponse),
   IMSDCMPDPDeactivate |->
     imsDCMRequest(IMSDCMPDPDeactivateRequest, IMSDCMPDPDeactivateResponse),
   WatchIMSDCMPDPActivations |-> Watch(IMSDCMPDPActivation, "skip")]
\* A decoder that no method of the client uses.
IMSDCMTypes ==
  [IMSDCMConnection |-> Watch(<<Must(\h01, IMSDCMConnection_UnmarshalBinary)>>, "stop")]

(***************************************************************************)
(* Presence (imsp.go) and test mode (imss.go).                             *)
(***************************************************************************)
IMSPGetEnablerStateRequest == <<>>
IMSPGetEnablerStateResponse == <<Must(\h10, Fixed(4))>>
IMSPCalls ==
  [IMSPEnablerState |-> Ask(IMSPGetEnablerStateRequest, IMSPGetEnablerStateResponse)]
IMSSSetTestModeRequest == <<Put(\h12, Bool)>>
IMSSTestModeResponse == <<Must(\h13, Fixed(1))>>
IMSSCalls ==
  [IMSSTestMode |-> Ask(<<>>, IMSSTestModeResponse),
   SetIMSSTestMode |-> Tell(IMSSSetTestModeRequest)]

IMSCalls ==
  IMSSettingsCalls @@ IMSAStatusCalls @@ IMSACalls @@ IMSDCMCalls @@ IMSDCMTypes
    @@ IMSPCalls @@ IMSSCalls
=============================================================================
