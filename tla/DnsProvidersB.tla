---------------------------- MODULE DnsProvidersB ----------------------------
(***************************************************************************)
(* DNS providers derak to freemyip, written as in DnsProvidersA.              *)
(***************************************************************************)
EXTENDS DnsPrograms

derak_do == Status
derak_client == Calls(derak_do, {"CreateRecord"}) @@ Calls(StatusAndBody, {"GetZones", "DeleteRecord"})
derak == Provider(derak_client,
    <<Zone, Ask("GetZones"), Create("CreateRecord"), Remember("token")>>,
    <<Ask("GetZones"), Recall("token"), DeleteById("DeleteRecord"), Forget("token")>>)

desec == Provider(Sdk,
    <<Zone, List("Get"), IfNone(Create("Create")), IfSome(PutMore("Update"))>>,
    <<Zone, List("Get"), NeedFound, PutRest("Update")>>)

\* CleanUp deletes the record set, whatever other values it holds.
designate == Provider(Sdk,
    <<Zone, Ask("ListZones"), List("ListByZone"), DoneIfOwn, IfSome(PutMore("Update")), IfNone(Create("Create"))>>,
    <<Zone, Ask("ListZones"), List("ListByZone"), DoneIfNone, DeleteSet("Delete")>>)

digitalocean_client == Calls(Status, {"AddTxtRecord", "RemoveTxtRecord"})
digitalocean == Provider(digitalocean_client,
    <<Zone, Create("AddTxtRecord"), Remember("token")>>,
    <<Zone, Recall("token"), DeleteById("RemoveTxtRecord"), Forget("token")>>)

directadmin_client == Calls(Status, {"SetRecord", "DeleteRecord"})
directadmin == Provider(directadmin_client,
    <<Zone, Create("SetRecord")>>, <<Zone, DeleteOwn("DeleteRecord")>>)

dnshomede_client == Calls(StatusAndBody, {"Add", "Remove"})
dnshomede == Sequential(Provider(dnshomede_client, <<Create("Add")>>, <<DeleteOwn("Remove")>>))

dnsimple_getHostedZone == <<Zone, Ask("Whoami"), Ask("GetZone")>>
dnsimple_findTxtRecords == dnsimple_getHostedZone \o <<Ask("Whoami"), List("ListRecords")>>
\* Every TXT record of the name is deleted; the last error is returned.
dnsimple == Provider(Sdk,
    dnsimple_getHostedZone \o <<Ask("Whoami"), Create("CreateRecord")>>,
    dnsimple_findTxtRecords \o <<Ask("Whoami"), DeleteAll("DeleteRecord")>>)

dnsmadeeasy_do == Status
dnsmadeeasy_client == Calls(dnsmadeeasy_do, {"GetDomain", "GetRecords", "CreateRecord", "DeleteRecord"})
dnsmadeeasy == Provider(dnsmadeeasy_client,
    <<Zone, Ask("GetDomain"), Create("CreateRecord")>>,
    <<Zone, Ask("GetDomain"), List("GetRecords"), DeleteAll("DeleteRecord")>>)

dnspod_getHostedZone == <<Ask("DomainsList"), Zone>>
dnspod == Provider(Sdk,
    dnspod_getHostedZone \o <<Create("Create")>>,
    dnspod_getHostedZone \o <<List("List"), DeleteEach("Delete")>>)

\* One TXT value for each domain: written, then cleared.
dode_client == Calls(StatusAndBody, {"UpdateTxtRecord"})
dode == Sequential(Provider(dode_client,
    <<Replace("UpdateTxtRecord")>>, <<DeleteSet("UpdateTxtRecord")>>))

domeneshop_DeleteTXTRecord ==
    <<ListOwn("getDNSRecordByHostData"), Pick, NeedFound, DeleteEach("DeleteTXTRecord")>>
domeneshop_client == Calls(Status,
    {"GetDomainByName", "CreateTXTRecord", "DeleteTXTRecord", "getDNSRecordByHostData"})
domeneshop == Provider(domeneshop_client,
    <<Zone, Ask("GetDomainByName"), Create("CreateTXTRecord")>>,
    <<Zone, Ask("GetDomainByName")>> \o domeneshop_DeleteTXTRecord)

dreamhost_client == Calls(StatusAndBody, {"AddRecord", "RemoveRecord"})
dreamhost == Provider(dreamhost_client, <<Create("AddRecord")>>, <<DeleteOwn("RemoveRecord")>>)

duckdns_client == Calls(StatusAndBody, {"UpdateTxtRecord"})
duckdns == Sequential(Provider(duckdns_client,
    <<Replace("UpdateTxtRecord")>>, <<DeleteSet("UpdateTxtRecord")>>))

dyn_login == <<Ask("login")>>
dyn_Logout == <<Ask("Logout")>>
dyn_session == Calls(StatusAndBody, {"login"}) @@ Calls(Status, {"Logout"})
\* RemoveTXTRecord does not read the answer, whose status may be "failure".
dyn_client == Calls(StatusAndBody, {"Publish", "AddTXTRecord"}) @@ Calls(BodyUnread, {"RemoveTXTRecord"})
dyn == Provider(dyn_client @@ dyn_session,
    <<Zone>> \o dyn_login \o <<Create("AddTXTRecord"), Publish("Publish")>> \o dyn_Logout,
    <<Zone>> \o dyn_login \o <<DeleteSet("RemoveTXTRecord"), Publish("Publish")>> \o dyn_Logout)

dyndnsfree_client == Calls(StatusAndBody, {"AddTXTRecord"})
dyndnsfree == Provider(dyndnsfree_client, <<Zone, Create("AddTXTRecord")>>, <<Done>>)

\* do repeats a call that ended in io.EOF; every other error is permanent.
dynu_doRetry == [s \in {Ask("GetRootDomain"), ListOwn("GetRecords"), Create("AddNewRecord"),
    DeleteEach("DeleteRecord")} |-> Retried(s)]
dynu_client == Calls(StatusAndBody, {"GetRootDomain", "GetRecords", "AddNewRecord", "DeleteRecord"})
dynu == Provider(dynu_client,
    <<dynu_doRetry[Ask("GetRootDomain")], dynu_doRetry[ListOwn("GetRecords")], DoneIfSome,
      dynu_doRetry[Create("AddNewRecord")]>>,
    <<dynu_doRetry[Ask("GetRootDomain")], dynu_doRetry[ListOwn("GetRecords")],
      dynu_doRetry[DeleteEach("DeleteRecord")]>>)

\* The identifier is forgotten even when the delete failed.
easydns_do == Status
easydns_client == Calls(StatusAndBody, {"ListZones", "AddRecord"}) @@ Calls(easydns_do, {"DeleteRecord"})
easydns == Sequential(Provider(easydns_client,
    <<Ask("ListZones"), Create("AddRecord"), Remember("value")>>,
    <<RecallOrDone("value"), Ask("ListZones"), Forget("value"), DeleteById("DeleteRecord")>>))

edgedns_CleanUpLastOnly ==
    <<Zone, List("GetRecord"), DoneIfNone, DoneUnlessOwn, IfNoRest(DeleteSet("DeleteRecord"))>>
edgedns_CleanUp == <<Zone, List("GetRecord"), DoneIfNone, DoneUnlessOwn,
    IfRest(PutRest("UpdateRecord")), IfNoRest(DeleteSet("DeleteRecord"))>>
edgedns == Provider(Sdk,
    <<Zone, List("GetRecord"), DoneIfOwn, IfSome(PutMore("UpdateRecord")), IfNone(Create("CreateRecord"))>>,
    edgedns_CleanUp)

edgeone_getHostedZoneID == <<Zone, Ask("DescribeZones")>>
edgeone == Provider(Sdk,
    edgeone_getHostedZoneID \o <<Create("CreateDnsRecord"), Remember("token")>>,
    edgeone_getHostedZoneID \o <<Recall("token"), DeleteById("DeleteDnsRecords")>>)

efficientip_do == Status
efficientip_client == Calls(efficientip_do, {"AddRecord", "DeleteRecord"})
efficientip == Provider(efficientip_client, <<Create("AddRecord")>>, <<DeleteOwn("DeleteRecord")>>)

epik_client == Calls(Status, {"GetDNSRecords", "CreateHostRecord", "RemoveHostRecord"})
epik == Provider(epik_client,
    <<Zone, Create("CreateHostRecord")>>,
    <<Zone, ListOwn("GetDNSRecords"), DeleteEach("RemoveHostRecord")>>)

\* The operator's program, called with "present" and "cleanup".
exec == Sequential(Provider(Sdk, <<Create("present")>>, <<DeleteOwn("cleanup")>>))

exoscale == Provider(Sdk,
    <<Zone, Ask("ListDNSDomains"), Create("CreateDNSDomainRecord"), Ask("Wait")>>,
    <<Zone, Ask("ListDNSDomains"), ListOwn("ListDNSDomainRecords"), Pick, DoneIfNone,
      DeleteEach("DeleteDNSDomainRecord"), Ask("Wait")>>)

\* waitFor sends the request again for a minute, whatever the error was.
f5xc_do == Status
f5xc_client == Calls(f5xc_do, {"CreateRRSet", "GetRRSet", "ReplaceRRSet", "DeleteRRSet"})
f5xc == Provider(f5xc_client,
    <<Zone, List("GetRRSet"), IfNone(Retried(Replace("CreateRRSet"))), IfSome(Retried(PutMore("ReplaceRRSet")))>>,
    <<Zone, DeleteSet("DeleteRRSet")>>)

freemyip == Sequential(Provider(Sdk, <<Replace("EditTXTRecord")>>, <<DeleteSet("DeleteTXTRecord")>>))
=============================================================================
