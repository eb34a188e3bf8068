---------------------------- MODULE DnsProvidersG ----------------------------
(***************************************************************************)
(* DNS providers transip to zonomi, written as in DnsProvidersA, and the    *)
(* implementations several providers share (providers/dns/internal).        *)
(***************************************************************************)
EXTENDS DnsPrograms

transip == Provider(Sdk,
    <<Zone, Create("AddDNSEntry")>>,
    <<Zone, ListOwn("GetDNSEntries"), Pick, DeleteEach("RemoveDNSEntry")>>)

\* A set that can be read is overwritten with the one value.
ultradns == Provider(Sdk,
    <<Zone, Ask("Get"), Tolerate(List("Read")), IfSome(Replace("Update")), IfNone(Create("Create"))>>,
    <<Zone, Ask("Get"), DeleteSet("Delete")>>)

variomedia_client == Calls(Status, {"CreateDNSRecord", "DeleteDNSRecord", "GetJob"})
\* The record's identifier is known when the job is done.
variomedia == Sequential(Provider(variomedia_client,
    <<Zone, Create("CreateDNSRecord"), Ask("GetJob"), Remember("token")>>,
    <<Recall("token"), DeleteById("DeleteDNSRecord"), Ask("GetJob")>>))

\* GetRecordID takes the first TXT record of the name.
vegadns == Provider(Sdk,
    <<Ask("GetDomainID"), Create("CreateTXTRecord")>>,
    <<Ask("GetDomainID"), List("GetRecordID"), Pick, NeedFound, DeleteEach("DeleteRecord")>>)

vercel_client == Calls(Status, {"CreateRecord", "DeleteRecord"})
vercel == Provider(vercel_client,
    <<Zone, Create("CreateRecord"), Remember("token")>>,
    <<Zone, Recall("token"), DeleteById("DeleteRecord"), Forget("token")>>)

versio_client == Calls(Status, {"GetDomain", "UpdateDomain"})
\* CleanUp keeps the records of other names only.
versio == Provider(versio_client,
    <<Zone, List("GetDomain"), PutMore("UpdateDomain")>>,
    <<Zone, List("GetDomain"), DeleteSet("UpdateDomain")>>)

vinyldns_getRecordSet == <<Zone, Ask("ZoneByName"), List("RecordSetsListAll")>>
vinyldns_createRecordSet == <<IfNone(Zone), IfNone(Ask("ZoneByName")), IfNone(Create("RecordSetCreate"))>>
vinyldns_waitForChanges == <<Ask("RecordSetChange")>>
vinyldns == Provider(Sdk,
    vinyldns_getRecordSet \o <<DoneIfOwn>> \o vinyldns_createRecordSet
        \o <<IfSome(PutMore("RecordSetUpdate"))>> \o vinyldns_waitForChanges,
    vinyldns_getRecordSet \o <<DoneIfNone, IfNoRest(DeleteSet("RecordSetDelete")),
        IfRest(PutRest("RecordSetUpdate"))>> \o vinyldns_waitForChanges)

vkcloud_client == Calls(Status,
    {"lazyAuth", "ListZones", "ListTXTRecords", "CreateTXTRecord", "DeleteTXTRecord"})
vkcloud == Provider(vkcloud_client,
    <<Zone, Once("lazyAuth"), Ask("ListZones"), List("ListTXTRecords"), DoneIfOwn, Create("CreateTXTRecord")>>,
    <<Zone, Once("lazyAuth"), Ask("ListZones"), ListOwn("ListTXTRecords"), Pick, DeleteEach("DeleteTXTRecord")>>)

volcengine == Provider(Sdk,
    <<Ask("ListZones"), Create("CreateRecord"), Remember("token")>>,
    <<Recall("token"), DeleteById("DeleteRecord")>>)

\* CleanUp deletes every TXT record of the name.
vultr == Provider(Sdk,
    <<Ask("Domain.List"), Create("DomainRecord.Create")>>,
    <<Ask("Domain.List"), List("DomainRecord.List"), DeleteAll("DomainRecord.Delete")>>)

webnames_client == Calls(StatusAndBody, {"AddTXTRecord", "RemoveTXTRecord"})
webnames == Provider(webnames_client,
    <<Zone, Create("AddTXTRecord")>>, <<Zone, DeleteOwn("RemoveTXTRecord")>>)

webnamesca_client == Calls(Status, {"AddTXTRecord", "DeleteTXTRecord"})
webnamesca == Provider(webnamesca_client,
    <<Zone, Create("AddTXTRecord")>>, <<Zone, DeleteOwn("DeleteTXTRecord")>>)

wedos_client == Calls(StatusAndBody, {"GetRecords", "AddRecord", "DeleteRecord", "Commit"})
wedos == Provider(wedos_client,
    <<Zone, List("GetRecords"), Create("AddRecord"), Publish("Commit")>>,
    <<Zone, ListOwn("GetRecords"), Pick, DoneIfNone, DeleteEach("DeleteRecord"), Publish("Commit")>>)

westcn_client == Calls(StatusAndBody, {"AddRecord", "DeleteRecord"})
westcn == Provider(westcn_client,
    <<Zone, Create("AddRecord"), Remember("token")>>,
    <<Zone, Recall("token"), DeleteById("DeleteRecord"), Forget("token")>>)

yandex_client == Calls(StatusAndBody, {"AddRecord", "RemoveRecord", "GetRecords"})
yandex == Provider(yandex_client,
    <<Create("AddRecord")>>,
    <<ListOwn("GetRecords"), Pick, NeedFound, DeleteEach("RemoveRecord")>>)

yandex360_client == Calls(Status, {"AddRecord", "DeleteRecord"})
yandex360 == Provider(yandex360_client,
    <<Zone, Create("AddRecord"), Remember("token")>>,
    <<Zone, Recall("token"), DeleteById("DeleteRecord"), Forget("token")>>)

\* An update names the set it replaces; a set of one value is deleted whatever
\* the value.
yandexcloud_upsert == <<List("GetRecordSet"), DoneIfOwn, Versioned(PutMore("UpdateRecordSets"))>>
yandexcloud_remove == <<List("GetRecordSet"), DoneIfNone, IfOne(Versioned(DeleteSet("UpdateRecordSets"))),
    IfMany(Versioned(PutRest("UpdateRecordSets")))>>
yandexcloud == Provider(Sdk,
    <<Zone, Ask("List")>> \o yandexcloud_upsert, <<Zone, Ask("List")>> \o yandexcloud_remove)

zoneedit_client == Calls(StatusAndBody, {"CreateTXTRecord", "DeleteTXTRecord"})
zoneedit == Provider(zoneedit_client, <<Create("CreateTXTRecord")>>, <<DeleteOwn("DeleteTXTRecord")>>)

zoneee_client == Calls(Status, {"GetTxtRecords", "AddTxtRecord", "RemoveTxtRecord"})
zoneee == Provider(zoneee_client,
    <<Zone, Create("AddTxtRecord")>>,
    <<Zone, ListOwn("GetTxtRecords"), Pick, NeedFound, DeleteEach("RemoveTxtRecord")>>)

-----------------------------------------------------------------------------
(* Shared by active24 and websupport.                                       *)
active24_client == Calls(Status, {"GetServices", "GetRecords", "CreateRecord", "DeleteRecord"})
active24_findRecordID == <<ListOwn("GetRecords"), Pick, NeedFound>>
active24 == Provider(active24_client,
    <<Zone, Ask("GetServices"), Create("CreateRecord")>>,
    <<Zone, Ask("GetServices")>> \o active24_findRecordID \o <<DeleteEach("DeleteRecord")>>)
websupport == active24

(* Shared by gcore and edgecenter.                                          *)
gcore_guessZone == <<Ask("GetZone")>>
gcore_AddRRSetAlone ==
    <<Tolerate(List("GetRRSet")), IfSome(Replace("updateRRSet")), IfNone(Create("createRRSet"))>>
\* A failed GetRRSet counts as "no set yet"; deleting a missing set succeeds.
gcore_AddRRSet == <<Tolerate(List("GetRRSet")), IfSome(PutMore("updateRRSet")), IfNone(Create("createRRSet"))>>
gcore_client == Calls(Status, {"GetZone", "GetRRSet", "createRRSet", "updateRRSet"})
    @@ Calls(NotFoundIsFine, {"DeleteRRSet"})
gcore == Provider(gcore_client, gcore_guessZone \o gcore_AddRRSet, gcore_guessZone \o <<DeleteSet("DeleteRRSet")>>)
edgecenter == gcore

(* Shared by hostingde and httpnet: the identifiers are keyed by the name.  *)
hostingde_client == Calls(StatusAndBody, {"GetZone", "UpdateZone"})
hostingde == Provider(hostingde_client,
    <<Zone, Ask("GetZone"), Create("UpdateZone"), Remember("fqdn")>>,
    <<Zone, Ask("GetZone"), Forget("fqdn"), DeleteOwn("UpdateZone")>>)
httpnet == hostingde

(* Shared by ionos and uniteddomains.                                       *)
ionos_client == Calls(Status, {"ListZones", "ReplaceRecords", "GetRecords", "RemoveRecord"})
ionos == Provider(ionos_client,
    <<Ask("ListZones"), List("GetRecords"), PutMore("ReplaceRecords")>>,
    <<Ask("ListZones"), ListOwn("GetRecords"), Pick, NeedFound, DeleteEach("RemoveRecord")>>)
uniteddomains == ionos

(* Shared by rimuhosting and zonomi.                                        *)
rimuhosting_client == Calls(Status, {"FindTXTRecords", "DoActions"})
rimuhosting == Provider(rimuhosting_client,
    <<List("FindTXTRecords"), PutMore("DoActions")>>, <<DeleteOwn("DoActions")>>)
zonomi == rimuhosting

(* Shared by selectel and vscale: CleanUp deletes every record of the name. *)
selectel_client == Calls(Status, {"GetDomainByName", "AddRecord", "ListRecords", "DeleteRecord"})
selectel == Provider(selectel_client,
    <<Ask("GetDomainByName"), Create("AddRecord")>>,
    <<Ask("GetDomainByName"), List("ListRecords"), DeleteAll("DeleteRecord")>>)
vscale == selectel

(* Shared by neodigit and virtualname.                                      *)
tecnocratica_client == Calls(Status, {"GetZones", "GetRecords", "CreateRecord", "DeleteRecord"})
tecnocratica == Provider(tecnocratica_client,
    <<Zone, Ask("GetZones"), Create("CreateRecord"), Remember("token")>>,
    <<Recall("token"), DeleteById("DeleteRecord"), Forget("token")>>)
neodigit == tecnocratica
virtualname == tecnocratica

\* The service has shut down: the constructor returns an error.
cloudxns == WithSetup(<<Fail>>, Provider(Sdk, <<Done>>, <<Done>>))
=============================================================================
