---------------------------- MODULE DnsProvidersF ----------------------------
(***************************************************************************)
(* DNS providers plesk to timewebcloud, written as in DnsProvidersA.        *)
(***************************************************************************)
EXTENDS DnsPrograms

plesk_client == Calls(StatusAndBody, {"GetSite", "AddRecord", "DeleteRecord"})
plesk == Provider(plesk_client,
    <<Zone, Ask("GetSite"), Create("AddRecord"), Remember("token")>>,
    <<Recall("token"), DeleteById("DeleteRecord")>>)

porkbun == Provider(Sdk,
    <<Zone, Create("CreateRecord"), Remember("token")>>,
    <<Recall("token"), Zone, DeleteById("DeleteRecord")>>)

rackspace_login == <<Ask("Login")>>
rackspace_client == Calls(Status,
    {"Login", "AddRecord", "DeleteRecord", "listDomainsByName", "searchRecords"})
\* FindTxtRecord refuses to choose between two TXT records of the name.
rackspace == WithSetup(rackspace_login, Provider(rackspace_client,
    <<Zone, Ask("listDomainsByName"), Create("AddRecord")>>,
    <<Zone, Ask("listDomainsByName"), List("searchRecords"), NeedFound, IfMany(Fail), Pick,
      DeleteEach("DeleteRecord")>>))

rainyun_client == Calls(Status, {"ListDomains", "ListRecords", "AddRecord", "DeleteRecord"})
rainyun == Provider(rainyun_client,
    <<Zone, Ask("ListDomains"), Create("AddRecord")>>,
    <<Zone, Ask("ListDomains"), ListOwn("ListRecords"), Pick, NeedFound, DeleteEach("DeleteRecord")>>)

rcodezero_client == Calls(Status, {"UpdateRecords"})
\* Both changes are on the record set of the name.
rcodezero == Provider(rcodezero_client,
    <<Zone, Replace("UpdateRecords")>>, <<Zone, DeleteSet("UpdateRecords")>>)

regfish == Provider(Sdk,
    <<Create("CreateRecord"), Remember("token")>>,
    <<Recall("token"), DeleteById("DeleteRecord"), Forget("token")>>)

regru_client == Calls(StatusAndBody, {"AddTXTRecord", "RemoveTxtRecord"})
regru == Provider(regru_client,
    <<Zone, Create("AddTXTRecord")>>, <<Zone, DeleteOwn("RemoveTxtRecord")>>)

\* The INSERT is preceded, in the same update, by the removal of the record set.
rfc2136_changeRecord(change) == <<Zone, change>>
rfc2136 == Sequential(Provider(Calls(Status, {"ExchangeContext"}),
    rfc2136_changeRecord(Replace("ExchangeContext")),
    rfc2136_changeRecord(DeleteOwn("ExchangeContext"))))

route53_getHostedZoneID == <<Zone, Ask("ListHostedZonesByName")>>
route53_changeRecord(change) == <<change, Ask("GetChange")>>
route53_getExistingRecordSets == List("ListResourceRecordSets")
\* An UPSERT names the whole set; a DELETE must name the set as it is.
route53 == Provider(Sdk,
    route53_getHostedZoneID \o <<route53_getExistingRecordSets>>
        \o route53_changeRecord(PutMore("ChangeResourceRecordSets")),
    route53_getHostedZoneID \o <<route53_getExistingRecordSets, DoneIfNone,
        IfRest(PutRest("ChangeResourceRecordSets"))>>
        \o route53_changeRecord(IfNoRest(Versioned(DeleteSet("ChangeResourceRecordSets")))))

safedns_client == Calls(Status, {"AddRecord", "RemoveRecord"})
safedns == Provider(safedns_client,
    <<Zone, Create("AddRecord"), Remember("token")>>,
    <<Zone, Recall("token"), DeleteById("RemoveRecord"), Forget("token")>>)

sakuracloud_wrapperUnversioned == [more |-> PutMore("UpdateSettings"), rest |-> PutRest("UpdateSettings")]
\* UpdateSettings carries the hash of the settings that were read.
sakuracloud_wrapper == [more |-> Versioned(PutMore("UpdateSettings")),
                        rest |-> Versioned(PutRest("UpdateSettings"))]
sakuracloud == Provider(Sdk,
    <<Zone, List("Find"), sakuracloud_wrapper.more>>,
    <<Zone, List("Find"), sakuracloud_wrapper.rest>>)

scaleway == Provider(Sdk,
    <<Create("UpdateDNSZoneRecords")>>, <<DeleteOwn("UpdateDNSZoneRecords")>>)

selectelv2_authorize == <<Ask("obtainOpenstackToken"), Ask("ListZones")>>
\* With one record left in the set the set is deleted, whatever the record says.
selectelv2 == Provider(Sdk,
    selectelv2_authorize \o
        <<List("ListRRSets"), IfNone(Create("CreateRRSet")), IfSome(PutMore("UpdateRRSet"))>>,
    selectelv2_authorize \o
        <<List("ListRRSets"), NeedFound, IfOne(DeleteSet("DeleteRRSet")), IfMany(PutRest("UpdateRRSet"))>>)

selfhostde_mappingLost == Forget("token")
\* The operator prepares two records for the name, used in turn.
selfhostde_mapping == Remember("token")
selfhostde_client == Calls(Status, {"UpdateTXTRecord"})
selfhostde == Provider(selfhostde_client,
    <<Create("UpdateTXTRecord"), selfhostde_mapping>>,
    <<Recall("token"), DeleteById("UpdateTXTRecord")>>)

servercow_client == Calls(StatusAndBody, {"GetRecords", "CreateUpdateRecord", "DeleteRecord"})
servercow_CleanUpWhole == <<Zone, List("GetRecords"), DoneUnlessOwn, DeleteSet("DeleteRecord")>>
servercow_CleanUp == <<Zone, List("GetRecords"), DoneUnlessOwn, IfOne(DeleteSet("DeleteRecord")),
    IfMany(PutRest("CreateUpdateRecord"))>>
servercow == Provider(servercow_client,
    <<Zone, List("GetRecords"), DoneIfOwn, PutMore("CreateUpdateRecord")>>, servercow_CleanUp)

shellrent_client == Calls(StatusAndBody,
    {"ListServices", "GetServiceDetails", "GetDomainDetails", "CreateRecord", "DeleteRecord"})
shellrent == Provider(shellrent_client,
    <<Ask("ListServices"), Ask("GetServiceDetails"), Ask("GetDomainDetails"), Create("CreateRecord"),
      Remember("token")>>,
    <<Recall("token"), DeleteById("DeleteRecord")>>)

simply_client == Calls(StatusAndBody, {"AddRecord", "DeleteRecord"})
simply == Provider(simply_client,
    <<Zone, Create("AddRecord"), Remember("token")>>,
    <<Zone, Recall("token"), DeleteById("DeleteRecord"), Forget("token")>>)

sonic_clientUnread == Calls(BodyUnread, {"SetRecord"})
sonic_client == Calls(StatusAndBody, {"SetRecord"})
\* CleanUp overwrites the record with a placeholder.
sonic == Sequential(Provider(sonic_client, <<Replace("SetRecord")>>, <<DeleteSet("SetRecord")>>))

spaceship_client == Calls(Status, {"AddRecord", "DeleteRecord"})
spaceship == Provider(spaceship_client,
    <<Zone, Create("AddRecord")>>, <<Zone, DeleteOwn("DeleteRecord")>>)

stackpath_client == Calls(Status, {"GetZones", "GetZoneRecords", "CreateZoneRecord", "DeleteZoneRecord"})
\* CleanUp deletes every TXT record of the name; failures are only logged.
stackpath == Provider(stackpath_client,
    <<Ask("GetZones"), Create("CreateZoneRecord")>>,
    <<Ask("GetZones"), List("GetZoneRecords"), NeedFound, Tolerate(DeleteEach("DeleteZoneRecord"))>>)

syse_client == Calls(Status, {"CreateRecord", "DeleteRecord"})
syse == Provider(syse_client,
    <<Zone, Create("CreateRecord"), Remember("token")>>,
    <<Zone, Recall("token"), DeleteById("DeleteRecord")>>)

technitium_client == Calls(StatusAndBody, {"AddRecord", "DeleteRecord"})
technitium == Provider(technitium_client, <<Create("AddRecord")>>, <<DeleteOwn("DeleteRecord")>>)

tencentcloud_getHostedZone == <<Ask("DescribeDomainList"), Zone>>
tencentcloud == Provider(Sdk,
    tencentcloud_getHostedZone \o <<Create("CreateRecord")>>,
    tencentcloud_getHostedZone \o <<List("DescribeRecordList"), DeleteEach("DeleteRecord")>>)

timewebcloud_client == Calls(Status, {"CreateRecord", "DeleteRecord"})
timewebcloud == Provider(timewebcloud_client,
    <<Zone, Create("CreateRecord"), Remember("token")>>,
    <<Zone, Recall("token"), DeleteById("DeleteRecord"), Forget("token")>>)
=============================================================================
