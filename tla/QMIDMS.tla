------------------------------- MODULE QMIDMS -------------------------------
(***************************************************************************)
(* The QMI device management service (qcom/dms*.go) in the notation of     *)
(* QMIWire: identity, capabilities, operating mode, events, firmware, PINs,*)
(* activation, user lock and stored data. A definition has the name of the *)
(* Go type or function it translates.                                      *)
(***************************************************************************)
EXTENDS QMIWire, TLC

dmsEmptyRequest == <<>>
dmsReadRequest(puts, rules) == Ask(puts, rules)
dmsRead(rules) == dmsReadRequest(dmsEmptyRequest, rules)
dmsRequiredString(id) == Must(id, Text)
dmsStringResponse == <<dmsRequiredString(\h01)>>
dmsString == dmsRead(dmsStringResponse)

(***************************************************************************)
(* Identity, operating mode and events (dms.go, dms_event.go).             *)
(***************************************************************************)
DMSGetMSISDNRequest == dmsEmptyRequest
DMSGetOperatingModeRequest == dmsEmptyRequest
DMSSetOperatingModeRequest == <<Put(\h01, U8)>>
dmsEventReportTLVs ==
  <<Opt(\h10, Bool), Opt(\h11, <<Raw(2)>>)>>
    \o Opts(<<\h12, \h13, \h14, \h15, \h16, \h17>>, Bool)
DMSSetEventReportRequest == <<Cases({dmsEventReportTLVs, <<Put(\h14, Bool)>>})>>
DMSGetMSISDNResponse == <<Must(\h01, Text), May(\h10, Text), May(\h11, Text)>>
DMSGetOperatingModeResponse ==
  <<Must(\h01, Fixed(1)), May(\h10, Fixed(2)), May(\h11, Fixed(1))>>
DMSBasicCalls ==
  [OperatingMode |-> Ask(DMSGetOperatingModeRequest, DMSGetOperatingModeResponse),
   OperatingModeInfo |-> Ask(DMSGetOperatingModeRequest, DMSGetOperatingModeResponse),
   SetOperatingMode |-> Tell(DMSSetOperatingModeRequest),
   MSISDN |-> Ask(DMSGetMSISDNRequest, DMSGetMSISDNResponse)]

requireDMSEventLength(want) == Fixed(want)
DMSPINState_MarshalBinary == <<Raw(3)>>
DMSPINState_UnmarshalBinary == requireDMSEventLength(3)
DMSEvent ==
  <<May(\h10, requireDMSEventLength(2)), May(\h11, DMSPINState_UnmarshalBinary),
    May(\h12, DMSPINState_UnmarshalBinary), May(\h13, requireDMSEventLength(2))>>
    \o Mays(<<\h14, \h15, \h16, \h17>>, requireDMSEventLength(1))
\* The first watcher switches the events on, the last one off.
acquireDMSEvents == Maybe(Tell(<<Check>> \o DMSSetEventReportRequest))
releaseDMSEvents == Maybe(Cleanup(DMSSetEventReportRequest))
DMSEventCalls ==
  [DMSSetEventReport |-> Tell(<<Check>> \o DMSSetEventReportRequest),
   DMSWatchEvents |-> acquireDMSEvents \o Watch(DMSEvent, "stop") \o releaseDMSEvents]

(***************************************************************************)
(* Capabilities and device information (dms_capabilities.go, dms_info.go). *)
(***************************************************************************)
DMSSubscriptionVoiceData_MarshalBinary == <<Raw(5)>>
DMSSubscriptionVoiceData_UnmarshalBinary == Fixed(5)
DMSIMSCapability_MarshalBinary == <<Raw(5)>>
DMSIMSCapability_UnmarshalBinary == Fixed(5)
dmsMaxSubscriptions == 6
parseDMSSubscriptionCapabilities == Array(1, 1, 8, dmsMaxSubscriptions)
parseDMSSubscriptionVoiceData == Array(1, 1, 5, dmsMaxSubscriptions)
parseDMSSubscriptionFeatureModes == Array(1, 1, 4, dmsMaxSubscriptions)
parseDMSIMSCapabilities == Array(1, 1, 5, dmsMaxSubscriptions)
DMSDeviceCapabilities_unmarshalCore == Array(11, 1, 1, 20)
DMSDeviceCapabilities ==
  <<Must(\h01, DMSDeviceCapabilities_unmarshalCore), May(\h10, Fixed(4)), May(\h11, Fixed(8)),
    May(\h12, Fixed(8)), May(\h14, Fixed(2)), May(\h15, parseDMSSubscriptionCapabilities),
    May(\h16, parseDMSSubscriptionVoiceData), May(\h17, parseDMSSubscriptionFeatureModes),
    May(\h18, Fixed(1)), May(\h19, parseDMSSubscriptionCapabilities),
    May(\h1C, parseDMSIMSCapabilities), May(\h1D, Fixed(1))>>
DMSCapabilitiesCall == [DeviceCapabilities |-> dmsRead(DMSDeviceCapabilities)]

DMSRevisionInfo == <<dmsRequiredString(\h01), May(\h10, Text), May(\h11, Text)>>
DMSSerialNumbers == Mays(<<\h10, \h11, \h12, \h13>>, Text)
DMSEncryptedSerialNumbers == Mays(<<\h10, \h11, \h12, \h13>>, <<AtMost(255)>>)
DMSBindSubscriptionRequest == <<Check, Put(\h01, U32)>>
DMSGetBindSubscriptionRequest == dmsEmptyRequest
DMSGetBindSubscriptionResponse == <<Only(\h10, Fixed(4))>>
DMSPowerState == <<Must(\h01, Fixed(2))>>
DMSDeviceTime == <<Must(\h01, Fixed(8)), May(\h10, Fixed(8)), May(\h11, Fixed(8))>>
parseDMSBandList(maxBands) == Array(2, 2, 2, maxBands)
DMSBandCapabilities ==
  <<Must(\h01, Fixed(8)), May(\h10, Fixed(8)), May(\h11, Fixed(8)),
    May(\h12, parseDMSBandList(256)), May(\h13, parseDMSBandList(512))>>
parseDMSImageVersions ==
  <<Room(1), Count(0, 1), Top(32), Take(1),
    Each(<<Room(5), Count(4, 1), Take(5), Top(128), RoomN(0, 1), TakeN(0, 1)>>), End>>
DMSSoftwareVersion ==
  <<dmsRequiredString(\h01), May(\h10, parseDMSImageVersions), May(\h11, Text),
    May(\h12, Text)>>
DMSInfoCalls ==
  [Manufacturer |-> dmsString,
   ModelID |-> dmsString,
   RevisionInfo |-> dmsRead(DMSRevisionInfo),
   SerialNumbers |-> dmsRead(DMSSerialNumbers),
   EncryptedSerialNumbers |-> dmsRead(DMSEncryptedSerialNumbers),
   PowerState |-> dmsRead(DMSPowerState),
   HardwareRevision |-> dmsString,
   DeviceTime |-> dmsRead(DMSDeviceTime),
   BandCapabilities |-> dmsRead(DMSBandCapabilities),
   FactorySKU |-> dmsString,
   SoftwareVersion |-> dmsRead(DMSSoftwareVersion),
   DMSBindSubscription |-> dmsReadRequest(DMSBindSubscriptionRequest, <<>>),
   DMSBoundSubscription |-> dmsRead(DMSGetBindSubscriptionResponse)]

(***************************************************************************)
(* Firmware (dms_firmware.go). A build ID has at most 255 characters, so   *)
(* that 255 images are more than a TLV can hold.                           *)
(***************************************************************************)
validateDMSFirmwareImageType == Vet
validateDMSFirmwareString == Vet
DMSFirmwareImage_MarshalBinary ==
  <<validateDMSFirmwareImageType, validateDMSFirmwareString, Raw(17), Within(1, 1, 255)>>
dmsFirmwareImages_MarshalBinary == <<Pre(1, 18 + 255, 255), Vet>>
decodeDMSFirmwareImage ==
  <<Room(18), Peek(1), Judged, Count(17, 1), RoomN(18, 1), TakeN(18, 1)>>
DMSFirmwareImage_UnmarshalBinary == Append(decodeDMSFirmwareImage, End)
dmsFirmwareImages_UnmarshalBinary ==
  <<Room(1), Count(0, 1), Take(1), Each(decodeDMSFirmwareImage), End>>
\* An image takes 19 bytes and its build ID; the test asks for 20.
decodeDMSStoredImageSets ==
  <<Room(1), Count(0, 1), Take(1),
    Each(<<Room(4), Judged, Count(3, 1), Take(4),
           Each(<<Room(20), Count(18, 1), RoomN(19, 1), TakeN(19, 1)>>)>>), End>>
DMSSetFirmwarePreferenceRequest ==
  <<Put(\h01, dmsFirmwareImages_MarshalBinary), Opt(\h10, Bool), Opt(\h11, U8)>>
DMSGetFirmwarePreferenceRequest == dmsEmptyRequest
DMSGetFirmwarePreferenceResponse == <<Must(\h01, dmsFirmwareImages_UnmarshalBinary)>>
DMSSetFirmwarePreferenceResponse_unmarshalMaximumBuildID == May(\h10, Fixed(1))
DMSSetFirmwarePreferenceResponse_UnmarshalTLVs ==
  <<May(\h01, Append(Array(1, 1, 1, NoMax), Judged)),
    DMSSetFirmwarePreferenceResponse_unmarshalMaximumBuildID>>
DMSPreferenceCalls ==
  [FirmwarePreference |-> dmsRead(DMSGetFirmwarePreferenceResponse),
   SetFirmwarePreference |->
     Ask(DMSSetFirmwarePreferenceRequest, DMSSetFirmwarePreferenceResponse_UnmarshalTLVs)]

DMSListStoredImagesRequest == dmsEmptyRequest
DMSListStoredImagesResponse == <<Must(\h01, decodeDMSStoredImageSets)>>
DMSStoredImagesCalls ==
  [StoredImages |-> dmsRead(DMSListStoredImagesResponse),
   ListStoredImages |-> dmsRead(DMSListStoredImagesResponse)]
DMSDeleteStoredImageRequest == <<Put(\h01, DMSFirmwareImage_MarshalBinary)>>
DMSDeleteCall == [DeleteStoredImage |-> dmsReadRequest(DMSDeleteStoredImageRequest, <<>>)]
DMSStoredImageInfoRequest == <<Put(\h01, DMSFirmwareImage_MarshalBinary)>>
DMSStoredImageInfo == <<May(\h10, Fixed(4)), May(\h11, Fixed(36)), May(\h12, Fixed(4))>>
DMSImageInfoCall == [StoredImageInfo |-> Ask(DMSStoredImageInfoRequest, DMSStoredImageInfo)]
DMSSetBootImageDownloadModeRequest == <<Check, Put(\h01, U8)>>
DMSGetBootImageDownloadModeRequest == dmsEmptyRequest
DMSBootImageDownloadMode == <<Must(\h10, Append(Fixed(1), Judged))>>
DMSBootCall == [BootImageDownloadMode |-> dmsRead(DMSBootImageDownloadMode)]
DMSSetBootCall ==
  [SetBootImageDownloadMode |-> dmsReadRequest(DMSSetBootImageDownloadModeRequest, <<>>)]
DMSSetFirmwareIDRequest == dmsEmptyRequest
DMSFirmwareIDCall == [SetFirmwareID |-> dmsReadRequest(DMSSetFirmwareIDRequest, <<>>)]

(***************************************************************************)
(* PINs, control keys and activation (dms_legacy.go, dms_ck.go). Their     *)
(* responses carry retry counters, decoded even when the operation failed. *)
(***************************************************************************)
validateDMSPINID == Vet
validateDMSASCII(max) == <<Vet, Within(1, 1, max)>>
validateDMSFixedASCII(length) == <<Vet, Raw(length)>>
dmsPINValueMax == 16
DMSPINProtectionRequest == <<validateDMSPINID, Raw(2)>> \o validateDMSASCII(dmsPINValueMax)
DMSPINVerifyRequest == <<validateDMSPINID, Raw(1)>> \o validateDMSASCII(dmsPINValueMax)
DMSPINUnblockRequest ==
  <<validateDMSPINID, Raw(1)>> \o validateDMSASCII(16) \o validateDMSASCII(dmsPINValueMax)
DMSPINChangeRequest ==
  <<validateDMSPINID, Raw(1)>> \o validateDMSASCII(dmsPINValueMax)
    \o validateDMSASCII(dmsPINValueMax)
DMSUIMSetPINProtectionRequest == <<Put(\h01, DMSPINProtectionRequest)>>
DMSUIMVerifyPINRequest == <<Put(\h01, DMSPINVerifyRequest)>>
DMSUIMUnblockPINRequest == <<Put(\h01, DMSPINUnblockRequest)>>
DMSUIMChangePINRequest == <<Put(\h01, DMSPINChangeRequest)>>
DMSUIMGetPINStatusRequest == dmsEmptyRequest
DMSPINStatusResponse == Mays(<<\h11, \h12>>, DMSPINState_UnmarshalBinary)
DMSPINOperationResult == <<Only(\h10, Fixed(2))>>
dmsPINOperation(puts) == ResultPreferred(puts, DMSPINOperationResult)
DMSPINCalls ==
  [DMSSetPINProtection |-> dmsPINOperation(DMSUIMSetPINProtectionRequest),
   DMSVerifyPIN |-> dmsPINOperation(DMSUIMVerifyPINRequest),
   DMSUnblockPIN |-> dmsPINOperation(DMSUIMUnblockPINRequest),
   DMSChangePIN |-> dmsPINOperation(DMSUIMChangePINRequest),
   DMSPINStatuses |-> dmsRead(DMSPINStatusResponse),
   DMSUIMGetPINStatus |-> dmsRead(DMSPINStatusResponse)]

DMSUIMGetICCIDRequest == dmsEmptyRequest
DMSICCIDCalls == [DMSICCID |-> dmsString, ICCID |-> dmsString]
DMSUIMGetIMSIRequest == dmsEmptyRequest
DMSIMSICalls == [DMSIMSI |-> dmsString, IMSI |-> dmsString]
DMSUIMGetCKStatusRequest == <<Check, Put(\h01, U8)>>
DMSCKStatus == <<Must(\h01, Fixed(3)), May(\h10, Fixed(1))>>
DMSCKStatusCall == [DMSGetCKStatus |-> Ask(DMSUIMGetCKStatusRequest, DMSCKStatus)]
DMSGetActivationStateRequest == dmsEmptyRequest
DMSActivationState == <<Must(\h01, Fixed(2))>>
DMSActivationCall == [ActivationState |-> dmsRead(DMSActivationState)]
DMSActivateAutomaticRequest == <<Put(\h01, validateDMSASCII(81))>>
DMSAutomaticCall == [ActivateAutomatic |-> dmsReadRequest(DMSActivateAutomaticRequest, <<>>)]
DMSManualActivationRequest ==
  validateDMSFixedASCII(6) \o <<Raw(2)>> \o validateDMSASCII(15) \o validateDMSASCII(15)
DMSPreferredRoamingList == <<Pre(2, 1, 1536), Vet, Raw(3)>>
DMSActivateManualRequest ==
  <<Put(\h01, DMSManualActivationRequest), Opt(\h11, validateDMSASCII(16)),
    Opt(\h12, validateDMSASCII(16)), Opt(\h13, DMSPreferredRoamingList)>>
DMSManualCall == [ActivateManual |-> dmsReadRequest(DMSActivateManualRequest, <<>>)]
DMSRestoreFactoryDefaultsRequest == <<Put(\h01, validateDMSFixedASCII(6))>>
DMSRestoreCall ==
  [RestoreFactoryDefaults |-> dmsReadRequest(DMSRestoreFactoryDefaultsRequest, <<>>)]

validateDMSUIMFacility == Vet
validateDMSCK == validateDMSASCII(8)
DMSUIMSetCKProtectionRequest ==
  <<Put(\h01, <<validateDMSUIMFacility, Vet, Raw(2)>> \o validateDMSCK)>>
DMSUIMUnblockCKRequest == <<Put(\h01, <<validateDMSUIMFacility, Raw(1)>> \o validateDMSCK)>>
DMSUIMGetStateRequest == dmsEmptyRequest
DMSUIMGetStateResponse == <<Must(\h01, Fixed(1))>>
DMSCKOperationResult == <<Only(\h10, Fixed(1))>>
dmsCKOperation(puts) == ResultPreferred(puts, DMSCKOperationResult)
DMSCKCalls ==
  [DMSSetCKProtection |-> dmsCKOperation(DMSUIMSetCKProtectionRequest),
   DMSUnblockCK |-> dmsCKOperation(DMSUIMUnblockCKRequest),
   DMSUIMState |-> dmsRead(DMSUIMGetStateResponse)]

(***************************************************************************)
(* Management, user lock and stored data (dms_management.go,               *)
(* dms_security.go, dms_storage.go).                                       *)
(***************************************************************************)
DMSResetRequest == dmsEmptyRequest
DMSGetPRLVersionRequest == dmsEmptyRequest
DMSGetPRLVersionResponse == <<Must(\h01, Fixed(2)), May(\h10, Fixed(1))>>
DMSSetTimeRequest == <<Check, Put(\h01, U64), Put(\h10, U32)>>
DMSGetAltNetworkConfigRequest == dmsEmptyRequest
DMSGetAltNetworkConfigResponse == <<Must(\h01, Fixed(1))>>
DMSSetAltNetworkConfigRequest == <<Put(\h01, Bool)>>
DMSGetMACAddressRequest == <<Check, Put(\h01, U32)>>
DMSGetMACAddressResponse ==
  <<Only(\h10, <<Room(1), Count(0, 1), Judged, Top(8), ExactlyN(1, 1), PeekN(1, 1)>>)>>
DMSManagementCalls ==
  [DMSReset |-> dmsRead(<<>>),
   DMSPRLVersion |-> dmsRead(DMSGetPRLVersionResponse),
   DMSSetTime |-> dmsReadRequest(DMSSetTimeRequest, <<>>),
   DMSAltNetworkConfig |-> dmsRead(DMSGetAltNetworkConfigResponse),
   DMSSetAltNetworkConfig |-> dmsReadRequest(DMSSetAltNetworkConfigRequest, <<>>),
   DMSMACAddress |-> dmsReadRequest(DMSGetMACAddressRequest, DMSGetMACAddressResponse) \o Judge]

validateDMSNumericCode(length) == Append(validateDMSFixedASCII(length), Vet)
DMSGetUserLockStateRequest == dmsEmptyRequest
DMSGetUserLockStateResponse == <<Must(\h01, Fixed(1))>>
DMSSetUserLockStateRequest == <<Put(\h01, <<Raw(1)>> \o validateDMSNumericCode(4))>>
DMSSetUserLockCodeRequest ==
  <<Put(\h01, validateDMSNumericCode(4) \o validateDMSNumericCode(4))>>
DMSValidateSPCRequest == <<Put(\h01, validateDMSNumericCode(6))>>
DMSSetSPCRequest ==
  <<Put(\h01, validateDMSNumericCode(6)), Put(\h02, validateDMSNumericCode(6))>>
DMSSecurityCalls ==
  [DMSUserLockState |-> dmsRead(DMSGetUserLockStateResponse),
   DMSSetUserLockState |-> dmsReadRequest(DMSSetUserLockStateRequest, <<>>),
   DMSSetUserLockCode |-> dmsReadRequest(DMSSetUserLockCodeRequest, <<>>),
   DMSValidateSPC |-> dmsReadRequest(DMSValidateSPCRequest, <<>>),
   DMSSetSPC |-> dmsReadRequest(DMSSetSPCRequest, <<>>)]

DMSReadUserDataRequest == dmsEmptyRequest
DMSWriteUserDataRequest == <<Put(\h01, <<Pre(2, 1, 512)>>)>>
DMSReadERIFileRequest == dmsEmptyRequest
DMSPersistentDataResponse(max) == <<Must(\h01, Append(Array(2, 2, 1, NoMax), Top(max)))>>
DMSStorageCalls ==
  [DMSUserData |-> dmsRead(DMSPersistentDataResponse(512)),
   DMSWriteUserData |-> dmsReadRequest(DMSWriteUserDataRequest, <<>>),
   DMSERIFile |-> dmsRead(DMSPersistentDataResponse(1024))]

DMSCalls ==
  DMSBasicCalls @@ DMSEventCalls @@ DMSCapabilitiesCall @@ DMSInfoCalls @@ DMSPreferenceCalls
    @@ DMSStoredImagesCalls @@ DMSDeleteCall @@ DMSImageInfoCall @@ DMSBootCall
    @@ DMSSetBootCall @@ DMSFirmwareIDCall @@ DMSPINCalls @@ DMSICCIDCalls @@ DMSIMSICalls
    @@ DMSCKStatusCall @@ DMSActivationCall @@ DMSAutomaticCall @@ DMSManualCall
    @@ DMSRestoreCall @@ DMSCKCalls @@ DMSManagementCalls @@ DMSSecurityCalls
    @@ DMSStorageCalls
=============================================================================
