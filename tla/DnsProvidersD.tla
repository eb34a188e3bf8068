---------------------------- MODULE DnsProvidersD ----------------------------
(***************************************************************************)
(* DNS providers infoblox to metaname, written as in DnsProvidersA.         *)
(***************************************************************************)
EXTENDS DnsPrograms

infoblox == Provider(Sdk,
    <<Ask("NewConnector"), Create("CreateTXTRecord"), Remember("token"), Tolerate(Ask("Logout"))>>,
    <<Ask("NewConnector"), Recall("token"), DeleteById("DeleteTXTRecord"), Forget("token"),
      Tolerate(Ask("Logout"))>>)

infomaniak_client == Calls(StatusAndBody, {"GetDomainByName", "CreateDNSRecord", "DeleteDNSRecord"})
infomaniak == Provider(infomaniak_client,
    <<Ask("GetDomainByName"), Create("CreateDNSRecord"), Remember("token")>>,
    <<Recall("token"), DeleteById("DeleteDNSRecord"), Forget("token")>>)

internetbs_client == Calls(StatusAndBody, {"AddRecord", "RemoveRecord"})
internetbs == Provider(internetbs_client, <<Create("AddRecord")>>, <<DeleteOwn("RemoveRecord")>>)

inwx_twoFactorAuth == <<Ask("Unlock")>>
inwx == Provider(Sdk,
    <<Zone, Ask("Login")>> \o inwx_twoFactorAuth \o
        <<Create("CreateRecord"), Tolerate(Ask("Logout"))>>,
    <<Zone, Ask("Login")>> \o inwx_twoFactorAuth \o
        <<ListOwn("Info"), Pick, NeedFound, DeleteEach("DeleteRecord"), Tolerate(Ask("Logout"))>>)

ipv64_client == Calls(Status, {"AddRecord", "DeleteRecord"})
ipv64 == Provider(ipv64_client, <<Create("AddRecord")>>, <<DeleteOwn("DeleteRecord")>>)

iwantmyname == WithSetup(<<Fail>>, Provider(Sdk, <<Done>>, <<Done>>))

joker_dmapi_login == <<Token("login")>>
\* RemoveTxtEntryFromZone drops every TXT line of the name; the status code in
\* the answer to the logout is not looked at.
joker_dmapi_client == Calls(StatusAndBody, {"GetZone", "PutZone", "login"}) @@ Calls(BodyUnread, {"Logout"})
joker_dmapi == Provider(joker_dmapi_client,
    <<Zone>> \o joker_dmapi_login \o <<List("GetZone"), PutMore("PutZone")>>,
    <<Zone>> \o joker_dmapi_login \o <<List("GetZone"), IfSome(DeleteSet("PutZone")), Ask("Logout")>>)

\* One value for each name; an empty value removes it.
joker_svc_client == Calls(StatusAndBody, {"SendRequest"})
joker_svc == Sequential(Provider(joker_svc_client,
    <<Zone, Replace("SendRequest")>>, <<Zone, DeleteSet("SendRequest")>>))

keyhelp_client == Calls(Status, {"ListDomains", "ListDomainRecords", "UpdateDomainRecords"})
keyhelp == Provider(keyhelp_client,
    <<Zone, Ask("ListDomains"), List("ListDomainRecords"), PutMore("UpdateDomainRecords"), Remember("token")>>,
    <<Recall("token"), List("ListDomainRecords"), PutRest("UpdateDomainRecords"), Forget("token")>>)

liara_parseError == Status
liara_client == Calls(liara_parseError, {"CreateRecord"}) @@ Calls(NotFoundIsFine, {"DeleteRecord"})
liara == Provider(liara_client,
    <<Zone, Create("CreateRecord"), Remember("token")>>,
    <<Zone, Recall("token"), DeleteById("DeleteRecord"), Forget("token")>>)

lightsail == Provider(Sdk, <<Create("CreateDomainEntry")>>, <<DeleteOwn("DeleteDomainEntry")>>)

limacity_do == Status
limacity_client == Calls(limacity_do, {"GetDomains", "GetRecords", "AddRecord", "DeleteRecord"})
limacity == Sequential(Provider(limacity_client,
    <<Ask("GetDomains"), Create("AddRecord"), Remember("token")>>,
    <<Recall("token"), ListOwn("GetRecords"), Pick, NeedFound, DeleteEach("DeleteRecord")>>))

linode == Provider(Sdk,
    <<Zone, Ask("ListDomains"), Create("CreateDomainRecord")>>,
    <<Zone, Ask("ListDomains"), ListOwn("ListDomainRecords"), DeleteEach("DeleteDomainRecord")>>)

liquidweb == Provider(Sdk,
    <<Ask("ListAll"), Create("Create"), Remember("token")>>,
    <<Recall("token"), DeleteById("Delete"), Forget("token")>>)

loopia_rpcCall == StatusAndBody
loopia_client == Calls(loopia_rpcCall, {"AddTXTRecord", "RemoveTXTRecord", "GetTXTRecords", "RemoveSubdomain"})
\* CleanUp removes the name when no record of it is left.
loopia == Provider(loopia_client,
    <<Zone, Create("AddTXTRecord"), ListOwn("GetTXTRecords"), NeedFound, Pick, Remember("token")>>,
    <<Zone, RecallOrZero("token"), DeleteById("RemoveTXTRecord"), List("GetTXTRecords"), DoneIfSome,
      DeleteSet("RemoveSubdomain")>>)

luadns_client == Calls(Status, {"ListZones", "CreateRecord", "DeleteRecord"})
luadns == Provider(luadns_client,
    <<Ask("ListZones"), Zone, Create("CreateRecord"), Remember("token")>>,
    <<Recall("token"), DeleteById("DeleteRecord"), Forget("token")>>)

mailinabox == Provider(Sdk, <<Create("AddRecord")>>, <<DeleteOwn("RemoveRecord")>>)

manageengine_do == Status
manageengine_client == Calls(manageengine_do,
    {"GetAllZones", "GetAllZoneRecords", "DeleteZoneRecord", "CreateZoneRecord", "UpdateZoneRecord"})
\* findZoneRecord returns nil when there is no record of the name.
manageengine_CleanUp == <<Zone, Ask("GetAllZones"), List("GetAllZoneRecords"), Deref, DoneUnlessOwn,
    IfOne(DeleteSet("DeleteZoneRecord")), IfMany(PutRest("UpdateZoneRecord"))>>
manageengine == Provider(manageengine_client,
    <<Zone, Ask("GetAllZones"), List("GetAllZoneRecords"), FailIfOwn, IfSome(PutMore("UpdateZoneRecord")),
      IfNone(Create("CreateZoneRecord"))>>,
    manageengine_CleanUp)

\* The operator is asked to add the record and to press Enter, and later told
\* to remove it.
manual == Sequential(Provider(Sdk,
    <<Zone, Create("ReadBytes")>>, <<Zone, Tolerate(DeleteOwn("Printf"))>>))

metaname == Provider(Sdk,
    <<Zone, Create("CreateDnsRecord"), Remember("token")>>,
    <<Zone, Recall("token"), DeleteById("DeleteDnsRecord")>>)
=============================================================================
