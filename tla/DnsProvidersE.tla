---------------------------- MODULE DnsProvidersE ----------------------------
(***************************************************************************)
(* DNS providers metaregistrar to pdns, written as in DnsProvidersA.        *)
(***************************************************************************)
EXTENDS DnsPrograms

metaregistrar_client == Calls(Status, {"UpdateDNSZone"})
metaregistrar == Provider(metaregistrar_client,
    <<Zone, Create("UpdateDNSZone")>>, <<Zone, DeleteOwn("UpdateDNSZone")>>)

mijnhost_client == Calls(Status, {"ListDomains", "GetRecords", "UpdateRecords"})
\* Present drops every TXT record of the name before it adds its own.
mijnhost == Sequential(Provider(mijnhost_client,
    <<Ask("ListDomains"), List("GetRecords"), Replace("UpdateRecords")>>,
    <<Ask("ListDomains"), List("GetRecords"), PutRest("UpdateRecords")>>))

mittwald_do == Status
mittwald_client == Calls(mittwald_do, {"ListDomains", "ListDNSZones", "CreateDNSZone", "UpdateTXTRecord"})
\* The name gets a zone of its own when it has none.
mittwald == Sequential(Provider(mittwald_client,
    <<Ask("ListDomains"), Ask("ListDNSZones"), Once("CreateDNSZone"), Replace("UpdateTXTRecord"),
      Remember("token")>>,
    <<Recall("token"), DeleteSet("UpdateTXTRecord")>>))

myaddr_client == Calls(Status, {"AddTXTRecord"})
\* The service removes the record by itself after a few minutes.
myaddr == Sequential(Provider(myaddr_client, <<Zone, Create("AddTXTRecord")>>, <<Done>>))

mydnsjp_client == Calls(Status, {"AddTXTRecord", "DeleteTXTRecord"})
mydnsjp == Provider(mydnsjp_client, <<Create("AddTXTRecord")>>, <<DeleteOwn("DeleteTXTRecord")>>)

\* CreateAuthenticatedContext never stores the token it obtains.
mythicbeasts_login == <<Ask("obtainToken")>>
\* The number of records added or removed must be one.
mythicbeasts_client == Calls(StatusAndBody, {"CreateTXTRecord", "RemoveTXTRecord", "obtainToken"})
mythicbeasts == Provider(mythicbeasts_client,
    <<Zone>> \o mythicbeasts_login \o <<Create("CreateTXTRecord")>>,
    <<Zone>> \o mythicbeasts_login \o <<DeleteOwn("RemoveTXTRecord")>>)

namecheap_GetClientIP == <<Ask("GetClientIP")>>
namecheap_client == Calls(StatusAndBody, {"GetHosts", "SetHosts"}) @@ Calls(StatusUnread, {"GetClientIP"})
\* SetHosts writes the whole zone; CleanUp leaves out every TXT record of the name.
namecheap == WithSetup(namecheap_GetClientIP, Provider(namecheap_client,
    <<List("GetHosts"), PutMore("SetHosts")>>,
    <<List("GetHosts"), DoneIfNone, DeleteSet("SetHosts")>>))

namedotcom == Provider(Sdk,
    <<Ask("GetDomain"), Create("CreateRecord")>>,
    <<List("ListRecords"), DeleteEach("DeleteRecord")>>)

namesilo == Provider(Sdk,
    <<Zone, Create("DnsAddRecord")>>,
    <<Zone, ListOwn("DnsListRecords"), Pick, NeedFound, DeleteEach("DnsDeleteRecord")>>)

nearlyfreespeech_client == Calls(Status, {"AddRecord", "RemoveRecord"})
nearlyfreespeech == Sequential(Provider(nearlyfreespeech_client,
    <<Zone, Create("AddRecord")>>, <<Zone, DeleteOwn("RemoveRecord")>>))

netcup_session == Calls(StatusAndBody, {"login", "Logout"})
netcup_client == Calls(StatusAndBody, {"UpdateDNSRecord", "GetDNSRecords"}) @@ netcup_session
\* Present goes on without the list when GetDNSRecords fails.
netcup == Provider(netcup_client,
    <<Zone, Ask("login"), Tolerate(List("GetDNSRecords")), Create("UpdateDNSRecord"), Tolerate(Ask("Logout"))>>,
    <<Zone, Ask("login"), ListOwn("GetDNSRecords"), Pick, NeedFound, DeleteEach("UpdateDNSRecord"),
      Tolerate(Ask("Logout"))>>)

netlify_client == Calls(Status, {"CreateRecord", "RemoveRecord"})
netlify == Provider(netlify_client,
    <<Zone, Create("CreateRecord"), Remember("token")>>,
    <<Zone, Recall("token"), DeleteById("RemoveRecord"), Forget("token")>>)

nicmanager_client == Calls(Status, {"GetZone", "AddRecord", "DeleteRecord"})
\* CleanUp returns "no record found to clean up" after it has deleted one.
nicmanager == Provider(nicmanager_client,
    <<Zone, Ask("GetZone"), Create("AddRecord")>>,
    <<Zone, ListOwn("GetZone"), Pick, DeleteEach("DeleteRecord"), Fail>>)

nicru_oauth == <<Ask("PasswordCredentialsToken")>>
nicru_client == Calls(StatusAndBody, {"ListZones", "GetRecords", "DeleteRecord", "CommitZone", "AddRecords"})
    @@ Calls(Status, {"PasswordCredentialsToken"})
nicru_CleanUp == <<Zone, Ask("ListZones"), ListOwn("GetRecords"), DeleteEach("DeleteRecord"),
    Publish("CommitZone")>>
nicru == WithSetup(nicru_oauth, Provider(nicru_client,
    <<Zone, Ask("ListZones"), List("GetRecords"), Create("AddRecords"), Publish("CommitZone")>>,
    nicru_CleanUp))

\* changeRecord waits until the change is INSYNC.
nifcloud_changeRecord(change) == <<Zone, change, Ask("GetChange")>>
nifcloud_client == Calls(Status, {"ChangeResourceRecordSets", "GetChange"})
nifcloud == Provider(nifcloud_client,
    nifcloud_changeRecord(Create("ChangeResourceRecordSets")),
    nifcloud_changeRecord(DeleteOwn("ChangeResourceRecordSets")))

njalla_client == Calls(StatusAndBody, {"AddRecord", "RemoveRecord"})
njalla == Provider(njalla_client,
    <<Create("AddRecord"), Remember("token")>>,
    <<Recall("token"), DeleteById("RemoveRecord"), Forget("token")>>)

nodion == Provider(Sdk,
    <<Zone, Ask("GetZones"), Create("CreateRecord"), Remember("token")>>,
    <<Zone, Recall("token"), ListOwn("GetRecords"), NeedFound, IfMany(Fail), DeleteEach("DeleteRecord")>>)

\* A failed Get counts as "no record"; CleanUp deletes the record with all its answers.
ns1_getHostedZone == <<Zone, Ask("Zones.Get")>>
ns1 == Provider(Sdk,
    ns1_getHostedZone \o <<Tolerate(List("Records.Get")), IfNone(Create("Records.Create")),
                           IfSome(PutMore("Records.Update"))>>,
    ns1_getHostedZone \o <<DeleteSet("Records.Delete")>>)

octenium_do == StatusAndBody
octenium_client == Calls(octenium_do, {"ListDomains", "ListDNSRecords", "AddDNSRecord", "DeleteDNSRecord"})
octenium == Provider(octenium_client,
    <<Zone, Ask("ListDomains"), Remember("token"), Create("AddDNSRecord")>>,
    <<Recall("token"), ListOwn("ListDNSRecords"), Pick, DeleteEach("DeleteDNSRecord")>>)

oraclecloud == Provider(Sdk,
    <<Zone, Create("PatchDomainRecords")>>,
    <<Zone, List("GetDomainRecords"), NeedFound, NeedOwn, OwnOnly, Pick, DeleteEach("PatchDomainRecords")>>)

otc_Login == <<Ask("Login")>>
otc_client == Calls(Status, {"Login", "GetZoneID", "GetRecordSetID", "CreateRecordSet", "DeleteRecordSet"})
\* One record set for the name, created with one value and deleted as a whole.
otc == Sequential(Provider(otc_client,
    <<Zone>> \o otc_Login \o <<Ask("GetZoneID"), Create("CreateRecordSet")>>,
    <<Zone>> \o otc_Login \o
        <<Ask("GetZoneID"), List("GetRecordSetID"), NeedFound, DeleteSet("DeleteRecordSet")>>))

\* The identifier is remembered only after the zone has been refreshed.
ovh == Provider(Sdk,
    <<Zone, Create("record"), Publish("refresh"), Remember("token")>>,
    <<Recall("token"), Zone, DeleteById("record"), Publish("refresh"), Forget("token")>>)

pdns_do == StatusAndBody
pdns_client == Calls(pdns_do, {"getAPIVersion", "GetHostedZone", "UpdateRecords", "Notify"})
pdns == WithSetup(<<Tolerate(Ask("getAPIVersion"))>>, Provider(pdns_client,
    <<Zone, List("GetHostedZone"), PutMore("UpdateRecords"), Ask("Notify")>>,
    <<Zone, List("GetHostedZone"), NeedFound, IfRest(PutRest("UpdateRecords")),
      IfNoRest(DeleteSet("UpdateRecords")), Ask("Notify")>>))
=============================================================================
