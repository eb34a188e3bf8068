---------------------------- MODULE DnsProvidersC ----------------------------
(***************************************************************************)
(* DNS providers gandi to iijdpf, written as in DnsProvidersA.            *)
(***************************************************************************)
EXTENDS DnsPrograms

gandi_zones == Calls(StatusAndBody, {"GetZoneID", "CloneZone", "NewZoneVersion", "AddTXTRecord"})
gandi_client == Calls(StatusAndBody, {"SetZoneVersion", "SetZone", "DeleteZone"})
\* The value goes into a copy of the zone, which then replaces the zone; CleanUp
\* puts the original back.
gandi_Present == <<Zone, Ask("GetZoneID"), FailIfKnown("zone"), Clone("CloneZone"), Ask("NewZoneVersion"),
    Create("AddTXTRecord"), Ask("SetZoneVersion"), Swap("SetZone"), Remember("zone")>>
gandi == Provider(gandi_zones @@ gandi_client, gandi_Present,
    <<RecallOrDone("zone"), Forget("zone"), Swap("SetZone"), Ask("DeleteZone")>>)

gandiv5_AddTXTRecord == <<List("getTXTRecord"), PutMore("addTXTRecord")>>
gandiv5_client == Calls(Status, {"getTXTRecord", "addTXTRecord", "DeleteTXTRecord"})
\* The map is keyed by the name, and CleanUp deletes the record set.
gandiv5 == Provider(gandiv5_client,
    <<Zone>> \o gandiv5_AddTXTRecord \o <<Remember("fqdn")>>,
    <<RecallOrDone("fqdn"), Forget("fqdn"), DeleteSet("DeleteTXTRecord")>>)

gcloud_applyChanges == NotFoundIsFine
gcloud_getHostedZone == <<Zone, Ask("ManagedZones")>>
gcloud_client == Calls(Status, {"ManagedZones", "ResourceRecordSets", "Changes"})
    @@ Calls(gcloud_applyChanges, {"applyChanges"})
\* The record set is deleted as it was read, then added with the value.
gcloud_Present == <<List("ResourceRecordSets"), DoneIfOwn,
    IfSome(Versioned(DeleteSet("applyChanges"))), Versioned(PutMore("applyChanges"))>>
gcloud == Provider(gcloud_client,
    gcloud_getHostedZone \o gcloud_Present,
    gcloud_getHostedZone \o
        <<List("ResourceRecordSets"), DoneIfNone, Versioned(DeleteSet("Changes"))>>)

gigahostno_Authenticate == <<Token("Authenticate")>>
gigahostno_do == Status
gigahostno_client == Calls(gigahostno_do,
    {"GetZones", "GetZoneRecords", "CreateNewRecord", "DeleteRecord", "Authenticate"})
gigahostno == Provider(gigahostno_client,
    gigahostno_Authenticate \o <<Ask("GetZones"), Create("CreateNewRecord")>>,
    gigahostno_Authenticate \o
        <<Ask("GetZones"), ListOwn("GetZoneRecords"), Pick, DeleteEach("DeleteRecord")>>)

\* An answer whose status code in the body is not 200 gives (0, nil).
glesys_client == Calls(BodyUnread, {"AddTXTRecord", "DeleteTXTRecord"})
\* The map is keyed by the name: the second challenge takes the first one's place.
glesys == Provider(glesys_client,
    <<Zone, Create("AddTXTRecord"), Remember("fqdn")>>,
    <<RecallOrDone("fqdn"), Forget("fqdn"), DeleteById("DeleteTXTRecord")>>)

godaddy_client == Calls(Status, {"GetRecords", "UpdateTxtRecords", "DeleteTxtRecords"})
godaddy == Provider(godaddy_client,
    <<Zone, List("GetRecords"), PutMore("UpdateTxtRecords")>>,
    <<Zone, List("GetRecords"), IfNoRest(DeleteSet("DeleteTxtRecords")), IfRest(PutRest("UpdateTxtRecords"))>>)

\* The service is closed: both methods only return nil.
googledomains == WithSetup(<<Fail>>, Provider(Sdk, <<Done>>, <<Done>>))

gravity_login == <<Ask("Login")>>
gravity_do == Status
gravity_client == Calls(gravity_do, {"Login", "GetDNSZones", "CreateDNSRecord", "DeleteDNSRecord"})
gravity == Sequential(Provider(gravity_client,
    gravity_login \o <<Ask("GetDNSZones"), Create("CreateDNSRecord"), Remember("token")>>,
    <<Recall("token"), DeleteById("DeleteDNSRecord")>>))

hetzner_v1_client == Calls(Status, {"AddRRSetRecords", "RemoveRRSetRecords", "GetAction"})
hetzner_v1 == Provider(hetzner_v1_client,
    <<Zone, Create("AddRRSetRecords"), Ask("GetAction")>>,
    <<Zone, DeleteOwn("RemoveRRSetRecords"), Ask("GetAction")>>)
hetzner_legacy_client == Calls(Status, {"GetTxtRecord", "CreateRecord", "DeleteRecord", "GetZoneID"})
hetzner_legacy == Provider(hetzner_legacy_client,
    <<Zone, Ask("GetZoneID"), Create("CreateRecord")>>,
    <<Zone, Ask("GetZoneID"), ListOwn("GetTxtRecord"), Pick, NeedFound, DeleteEach("DeleteRecord")>>)

hostinger_client == Calls(Status, {"GetDNSRecords", "UpdateDNSRecords", "DeleteDNSRecords"})
hostinger == Provider(hostinger_client,
    <<Zone, Create("UpdateDNSRecords")>>,
    <<Zone, List("GetDNSRecords"), NeedFound, IfRest(PutRest("UpdateDNSRecords")),
      IfNoRest(DeleteSet("DeleteDNSRecords"))>>)

hosttech_do == Status
hosttech_client == Calls(hosttech_do, {"GetZone", "AddRecord", "DeleteRecord"})
hosttech == Provider(hosttech_client,
    <<Zone, Ask("GetZone"), Create("AddRecord"), Remember("token")>>,
    <<Zone, Ask("GetZone"), Recall("token"), DeleteById("DeleteRecord")>>)

httpreq_doPost == Calls(Status, {"present", "cleanup"})
httpreq == Provider(httpreq_doPost, <<Create("present")>>, <<DeleteOwn("cleanup")>>)

\* One record set holds all the values of the name; CleanUp deletes the set
\* whose identifier Present returned.
huaweicloud_getOrCreateRecordSetID == <<List("ListRecordSetsByZone"), IfNone(Create("CreateRecordSet")),
    IfSome(PutMore("UpdateRecordSet"))>>
huaweicloud_client == Calls(Status, {"ShowRecordSet", "CreateRecordSet", "UpdateRecordSet", "DeleteRecordSet",
    "ListRecordSetsByZone", "ListPublicZones"})
huaweicloud == Provider(huaweicloud_client,
    <<Zone, Ask("ListPublicZones")>> \o huaweicloud_getOrCreateRecordSetID
        \o <<Remember("token"), Ask("ShowRecordSet")>>,
    <<Recall("token"), Zone, Ask("ListPublicZones"), DeleteSet("DeleteRecordSet")>>)

\* CleanUp overwrites the value with ".".
hurricane_client == Calls(StatusAndBody, {"UpdateTxtRecord"})
hurricane == Sequential(Provider(hurricane_client,
    <<Replace("UpdateTxtRecord")>>, <<DeleteSet("UpdateTxtRecord")>>))

hyperone_GetJWT == Status
hyperone_recordsets == Calls(hyperone_GetJWT,
    {"FindRecordset", "CreateRecordset", "DeleteRecordset", "GetRecords"})
hyperone_records == Calls(hyperone_GetJWT, {"CreateRecord", "DeleteRecord", "FindZone"})
hyperone == Provider(hyperone_recordsets @@ hyperone_records,
    <<Zone, Ask("FindZone"), List("FindRecordset"), IfNone(Create("CreateRecordset")),
      IfSome(Create("CreateRecord"))>>,
    <<Zone, Ask("FindZone"), List("FindRecordset"), NeedFound, List("GetRecords"), NeedOwn,
      IfOne(DeleteSet("DeleteRecordset")), IfOne(Done), OwnOnly, Pick, DeleteEach("DeleteRecord")>>)

\* deleteResourceRecords keeps only the last record of the list: one is deleted.
ibmcloud_wrapper == <<Ask("GetByDomainName"), List("GetResourceRecords"), NeedFound, Pick,
    DeleteEach("DeleteObject")>>
ibmcloud == Provider(Sdk,
    <<Ask("GetByDomainName"), Create("CreateTxtRecord")>>, ibmcloud_wrapper)

iij_deleteTxtRecord == <<Ask("ZoneListGet"), ListOwn("RecordListGet"), Pick, NeedFound,
    DeleteEach("RecordDelete"), Publish("Commit")>>
iij == Provider(Sdk,
    <<Ask("ZoneListGet"), Create("RecordAdd"), Publish("Commit")>>, iij_deleteTxtRecord)

\* A record with one value is deleted, whatever the value.
iijdpf_wrapper == << IfOne(DeleteSet("SyncDelete")), IfMany(PutRest("SyncUpdate")), Publish("SyncApply") >>
iijdpf == Provider(Sdk,
    <<Ask("GetZoneIdFromServiceCode"), List("GetRecordFromZoneID"), IfSome(PutMore("SyncUpdate")),
      IfNone(Create("SyncCreate")), Publish("SyncApply")>>,
    <<Ask("GetZoneIdFromServiceCode"), List("GetRecordFromZoneID")>> \o iijdpf_wrapper)
=============================================================================
