---------------------------- MODULE DnsProvidersA ----------------------------
(***************************************************************************)
(* DNS providers acmedns to cpanel: one definition for Present and CleanUp, *)
(* one for the client's methods and how they judge an answer, and one for   *)
(* each helper that makes several requests.                                 *)
(***************************************************************************)
EXTENDS DnsPrograms

\* register stores the account and then asks the operator for the CNAME,
\* unless the storage service has created it.
acmedns_register == << IfUnknown(Ask("RegisterAccount")), IfUnknown(Ask("Put")),
    IfUnknown(Step("enroll", "Save")) >>
acmedns_storage == Calls(Status, {"Fetch", "Put", "Save", "FetchAll", "RegisterAccount", "UpdateTXTRecord"})
\* acme-dns keeps the last two values of an account; CleanUp does nothing.
acmedns == Provider(acmedns_storage,
    <<Ask("Fetch")>> \o acmedns_register \o <<Step("roll", "UpdateTXTRecord")>>,
    <<Done>>)

alidns_getHostedZone == <<Ask("DescribeDomains"), Zone>>
alidns_findTxtRecords == alidns_getHostedZone \o <<List("DescribeDomainRecords")>>
alidns == Provider(Sdk,
    alidns_getHostedZone \o <<Create("AddDomainRecord")>>,
    alidns_findTxtRecords \o alidns_getHostedZone \o <<DeleteEach("DeleteDomainRecord")>>)

aliesa_getSiteID == <<Zone, Ask("ListSites")>>
aliesa == Provider(Sdk,
    aliesa_getSiteID \o <<Create("CreateRecord"), Remember("token")>>,
    <<Recall("token"), DeleteById("DeleteRecord")>>)

allinkl_Authentication == <<Ask("Authentication")>>
allinkl_client == Calls(StatusAndBody,
    {"GetDNSSettings", "AddDNSSettings", "DeleteDNSSettings", "Authentication"})
allinkl == Provider(allinkl_client,
    <<Zone>> \o allinkl_Authentication \o <<Create("AddDNSSettings"), Remember("token")>>,
    allinkl_Authentication \o <<Recall("token"), DeleteById("DeleteDNSSettings")>>)

anexia_client == Calls(Status, {"CreateRecord", "DeleteRecord", "GetZone"})
\* findRecordID retries for five minutes until the record is listed.
anexia == Provider(anexia_client,
    <<Zone, Create("CreateRecord")>>,
    <<Zone, ListOwn("GetZone"), Pick, NeedFound, DeleteEach("DeleteRecord")>>)

arvancloud_client == Calls(Status, {"GetTxtRecord", "getRecords", "CreateRecord", "DeleteRecord"})
arvancloud == Provider(arvancloud_client,
    <<Zone, Create("CreateRecord"), Remember("token")>>,
    <<Zone, Recall("token"), DeleteById("DeleteRecord"), Forget("token")>>)

auroradns == Provider(Sdk,
    <<Zone, Ask("ListZones"), Create("CreateRecord"), Remember("token")>>,
    <<Recall("token"), Zone, Ask("ListZones"), DeleteById("DeleteRecord"), Forget("token")>>)

autodns_client == Calls(Status, {"AddRecords", "RemoveRecords", "updateZone"})
autodns == Provider(autodns_client, <<Create("AddRecords")>>, <<DeleteOwn("RemoveRecords")>>)

axelname_client == Calls(StatusAndBody, {"ListRecords", "AddRecord", "DeleteRecord"})
axelname == Provider(axelname_client,
    <<Zone, Create("AddRecord")>>,
    <<Zone, ListOwn("ListRecords"), Pick, NeedFound, DeleteEach("DeleteRecord")>>)

\* One record holds all the answers of the name.
azion_findExistingTXTRecord == <<Ask("GetZones"), List("GetZoneRecords")>>
azion == Provider(Sdk,
    azion_findExistingTXTRecord
        \o <<IfSome(PutMore("PutZoneRecord")), IfNone(Create("PostZoneRecord")), Remember("token")>>,
    <<Ask("GetZones"), Forget("token"), List("GetZoneRecords"), DoneIfNone,
      IfNoRest(DeleteSet("DeleteZoneRecord")), IfRest(PutRest("PutZoneRecord"))>>)

azure_public == Provider(Sdk,
    <<Zone, Ask("ZonesGet"), List("Get"), PutMore("CreateOrUpdate")>>,
    <<Zone, Ask("ZonesGet"), DeleteSet("Delete")>>)
azure_private == Provider(Sdk,
    <<Zone, Ask("PrivateZonesGet"), List("Get"), PutMore("CreateOrUpdate")>>,
    <<Zone, Ask("PrivateZonesGet"), DeleteSet("Delete")>>)

azuredns_discoverDNSZones == <<Ask("Resources")>>
azuredns_public == WithSetup(azuredns_discoverDNSZones, Provider(Sdk,
    <<Zone, Ask("serviceDiscoveryZones"), List("Get"), PutMore("CreateOrUpdate")>>,
    <<Zone, Ask("serviceDiscoveryZones"), DeleteSet("Delete")>>))
azuredns_private == WithSetup(azuredns_discoverDNSZones, Provider(Sdk,
    <<Zone, Ask("serviceDiscoveryZones"), List("Get"), PutMore("CreateOrUpdate")>>,
    <<Zone, Ask("serviceDiscoveryZones"), DeleteSet("Delete")>>))

baiducloud == Provider(Sdk,
    <<Zone, Create("CreateRecord")>>,
    <<Zone, ListOwn("ListRecord"), Pick, NeedFound, DeleteEach("DeleteRecord")>>)

beget_client == Calls(StatusAndBody, {"GetTXTRecords", "ChangeTXTRecord"})
beget == Provider(beget_client,
    <<List("GetTXTRecords"), PutMore("ChangeTXTRecord")>>,
    <<List("GetTXTRecords"), DoneIfNone, PutRest("ChangeTXTRecord")>>)

binarylane_client == Calls(Status, {"CreateRecord", "DeleteRecord"})
binarylane == Provider(binarylane_client,
    <<Zone, Create("CreateRecord"), Remember("token")>>,
    <<Zone, Recall("token"), DeleteById("DeleteRecord")>>)

bindman == Provider(Sdk, <<Create("AddRecord")>>, <<DeleteSet("RemoveRecord")>>)

bluecat_login == <<Ask("login")>>
bluecat_lookup == <<Ask("LookupViewID"), Ask("LookupParentZoneID")>>
bluecat_client == Calls(Status, {"Deploy", "AddEntity", "GetEntityByName", "Delete",
    "LookupViewID", "LookupParentZoneID"}) @@ Calls(StatusAndBody, {"login", "Logout"})
\* GetEntityByName returns one entity of that name, whatever its text.
bluecat == Provider(bluecat_client,
    bluecat_login \o bluecat_lookup \o <<Create("AddEntity"), Publish("Deploy"), Ask("Logout")>>,
    bluecat_login \o bluecat_lookup \o
        <<List("GetEntityByName"), Pick, DeletePicked("Delete"), Publish("Deploy"), Ask("Logout")>>)

bookmyname_client == Calls(StatusAndBody, {"AddRecord", "RemoveRecord"})
bookmyname == Provider(bookmyname_client, <<Create("AddRecord")>>, <<DeleteOwn("RemoveRecord")>>)

brandit_client == Calls(StatusAndBody, {"ListRecords", "AddRecord", "DeleteRecord", "StatusDomain"})
brandit == Provider(brandit_client,
    <<Zone, Ask("StatusDomain"), Ask("ListRecords"), Create("AddRecord"), Remember("token")>>,
    <<Zone, Recall("token"), Ask("StatusDomain"), Ask("ListRecords"), DeleteOwn("DeleteRecord"),
      Forget("token")>>)

\* CleanUp takes the first TXT record of the name.
bunny == Provider(Sdk,
    <<Ask("List"), Create("AddDNSRecord")>>,
    <<List("List"), Pick, NeedFound, DeleteEach("DeleteDNSRecord")>>)

checkdomain_DeleteTXTRecord ==
    <<Ask("getDomainInfo"), Ask("getNameserverInfo"), List("listRecords"), PutRest("replaceRecords")>>
checkdomain_do == Status
checkdomain_client == Calls(checkdomain_do, {"GetDomainIDByName", "getNameserverInfo", "CheckNameservers",
    "CreateRecord", "getDomainInfo", "listRecords", "replaceRecords"})
checkdomain == Provider(checkdomain_client,
    <<Once("GetDomainIDByName"), Ask("CheckNameservers"), Create("CreateRecord")>>,
    <<Once("GetDomainIDByName"), Ask("CheckNameservers")>> \o checkdomain_DeleteTXTRecord)

civo_client == Calls(Status, {"ListDomains", "ListDNSRecords", "CreateDNSRecord", "DeleteDNSRecord"})
civo == Provider(civo_client,
    <<Zone, Ask("ListDomains"), Create("CreateDNSRecord")>>,
    <<Zone, Ask("ListDomains"), ListOwn("ListDNSRecords"), Pick,
      DeletePicked("DeleteDNSRecord")>>)

clouddns_login == <<Ask("login")>>
clouddns_AddRecord == <<Ask("getDomain"), Create("addTxtRecord"), Publish("publishRecords")>>
\* getRecord takes the first TXT record of the name.
clouddns_DeleteRecord == <<Ask("getDomain"), List("getRecord"), Pick, NeedFound,
    DeleteEach("deleteRecord"), Publish("publishRecords")>>
clouddns_client == Calls(Status,
    {"login", "getDomain", "addTxtRecord", "getRecord", "deleteRecord", "publishRecords"})
clouddns == Provider(clouddns_client,
    <<Zone>> \o clouddns_login \o clouddns_AddRecord,
    <<Zone>> \o clouddns_login \o clouddns_DeleteRecord)

cloudflare_wrapper == <<Once("ZonesByName")>>
cloudflare_client == Calls(Status, {"CreateDNSRecord", "DeleteDNSRecord", "ZonesByName"})
\* A failed delete is only logged.
cloudflare == Provider(cloudflare_client,
    <<Zone>> \o cloudflare_wrapper \o <<Create("CreateDNSRecord"), Remember("token")>>,
    <<Zone>> \o cloudflare_wrapper \o
        <<Recall("token"), Tolerate(DeleteById("DeleteDNSRecord")), Forget("token")>>)

cloudns_GetZone == <<Zone, Ask("GetZone")>>
cloudns_do == Status
cloudns_client == Calls(cloudns_do, {"GetZone", "FindTxtRecord", "ListTxtRecords", "GetUpdateStatus"})
    @@ Calls(StatusAndBody, {"AddTxtRecord", "RemoveTxtRecord"})
cloudns == Provider(cloudns_client,
    cloudns_GetZone \o <<Create("AddTxtRecord"), Ask("GetUpdateStatus")>>,
    cloudns_GetZone \o <<List("ListTxtRecords"), DoneIfNone, DeleteEach("RemoveTxtRecord")>>)

\* The token is fetched anew for every call: c.token is never assigned.
cloudru_login == <<Ask("obtainToken")>>
cloudru_client == Calls(Status, {"GetZones", "GetRecords", "CreateRecord", "DeleteRecord", "obtainToken"})
cloudru == Sequential(Provider(cloudru_client,
    <<Zone>> \o cloudru_login \o <<Ask("GetZones"), Create("CreateRecord"), Remember("token")>>,
    <<Recall("token")>> \o cloudru_login \o <<DeleteSet("DeleteRecord"), Forget("token")>>))

conoha_GetToken == <<Ask("GetToken")>>
conoha_client == Calls(Status, {"GetToken", "GetDomainID", "GetRecordID", "CreateRecord", "DeleteRecord"})
conoha == WithSetup(conoha_GetToken, Provider(conoha_client,
    <<Zone, Ask("GetDomainID"), Create("CreateRecord")>>,
    <<Zone, Ask("GetDomainID"), ListOwn("GetRecordID"), Pick, NeedFound, DeleteEach("DeleteRecord")>>))

conohav3_GetToken == <<Ask("GetToken")>>
conohav3_client == Calls(Status, {"GetToken", "GetDomainID", "GetRecordID", "CreateRecord", "DeleteRecord"})
conohav3 == WithSetup(conohav3_GetToken, Provider(conohav3_client,
    <<Zone, Ask("GetDomainID"), Create("CreateRecord")>>,
    <<Zone, Ask("GetDomainID"), ListOwn("GetRecordID"), Pick, NeedFound, DeleteEach("DeleteRecord")>>))

\* One record holds all the values of the name; a 404 of Search is an empty list.
constellix_appendRecordValue == <<IfSome(List("Get")), IfSome(PutMore("Update"))>>
constellix_do == Status
constellix_domains == Calls(constellix_do, {"GetByName"})
constellix_records == Calls(constellix_do, {"Search", "Get", "Create", "Update", "Delete"})
constellix == Provider(constellix_domains @@ constellix_records,
    <<Zone, Ask("GetByName"), List("Search"), IfNone(Create("Create"))>> \o constellix_appendRecordValue,
    <<Zone, Ask("GetByName"), List("Search"), DoneIfNone, List("Get"), DoneUnlessOwn,
      IfNoRest(DeleteSet("Delete")), IfRest(PutRest("Update"))>>)

corenetworks_login == <<Ask("CreateAuthenticationToken")>>
corenetworks_do == Status
corenetworks_client == Calls(corenetworks_do, {"ListZone", "GetZoneDetails", "ListRecords", "AddRecord",
    "DeleteRecords", "CommitRecords", "CreateAuthenticationToken"})
corenetworks == Sequential(Provider(corenetworks_client,
    corenetworks_login \o <<Zone, Create("AddRecord"), Publish("CommitRecords")>>,
    corenetworks_login \o <<Zone, DeleteOwn("DeleteRecords"), Publish("CommitRecords")>>))

\* The serial of the zone that was read goes with every change.
cpanel_client == Calls(StatusAndBody, {"FetchZoneInformation", "AddRecord", "EditRecord", "DeleteRecord"})
cpanel_whm_client == cpanel_client
cpanel_Present == <<Zone, ListOwn("FetchZoneInformation"), IfNone(Versioned(Create("AddRecord"))),
    IfSome(Ask("EditRecord"))>>
cpanel == Provider(cpanel_client, cpanel_Present,
    <<Zone, ListOwn("FetchZoneInformation"), DoneIfNone, Versioned(DeleteEach("DeleteRecord"))>>)
=============================================================================
