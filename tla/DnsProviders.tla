---------------------------- MODULE DnsProviders ----------------------------
(***************************************************************************)
(* The table of the DNS providers.                                          *)
(***************************************************************************)
EXTENDS DnsProvidersA, DnsProvidersB, DnsProvidersC, DnsProvidersD,
        DnsProvidersE, DnsProvidersF, DnsProvidersG

\* edgecenter, httpnet, neodigit, uniteddomains, virtualname, vscale, websupport
\* and zonomi are the shared implementations under another name.
AllProviders == [
    acmedns |-> acmedns, alidns |-> alidns, aliesa |-> aliesa, allinkl |-> allinkl,
    anexia |-> anexia, arvancloud |-> arvancloud, auroradns |-> auroradns, autodns |-> autodns,
    axelname |-> axelname, azion |-> azion, azure_public |-> azure_public,
    azure_private |-> azure_private, azuredns_public |-> azuredns_public,
    azuredns_private |-> azuredns_private, baiducloud |-> baiducloud, beget |-> beget,
    binarylane |-> binarylane, bindman |-> bindman, bluecat |-> bluecat,
    bookmyname |-> bookmyname, brandit |-> brandit, bunny |-> bunny, checkdomain |-> checkdomain,
    civo |-> civo, clouddns |-> clouddns, cloudflare |-> cloudflare, cloudns |-> cloudns,
    cloudru |-> cloudru, conoha |-> conoha, conohav3 |-> conohav3, constellix |-> constellix,
    corenetworks |-> corenetworks, cpanel |-> cpanel, derak |-> derak, desec |-> desec,
    designate |-> designate, digitalocean |-> digitalocean, directadmin |-> directadmin,
    dnshomede |-> dnshomede, dnsimple |-> dnsimple, dnsmadeeasy |-> dnsmadeeasy,
    dnspod |-> dnspod, dode |-> dode, domeneshop |-> domeneshop, dreamhost |-> dreamhost,
    duckdns |-> duckdns, dyn |-> dyn, dyndnsfree |-> dyndnsfree, dynu |-> dynu,
    easydns |-> easydns, edgedns |-> edgedns, edgeone |-> edgeone, efficientip |-> efficientip,
    epik |-> epik, exec |-> exec, exoscale |-> exoscale, f5xc |-> f5xc, freemyip |-> freemyip,
    gandi |-> gandi, gandiv5 |-> gandiv5, gcloud |-> gcloud, gigahostno |-> gigahostno,
    glesys |-> glesys, godaddy |-> godaddy, googledomains |-> googledomains, gravity |-> gravity,
    hetzner_v1 |-> hetzner_v1, hetzner_legacy |-> hetzner_legacy, hostinger |-> hostinger,
    hosttech |-> hosttech, httpreq |-> httpreq, huaweicloud |-> huaweicloud,
    hurricane |-> hurricane, hyperone |-> hyperone, ibmcloud |-> ibmcloud, iij |-> iij,
    iijdpf |-> iijdpf, infoblox |-> infoblox, infomaniak |-> infomaniak,
    internetbs |-> internetbs, inwx |-> inwx, ipv64 |-> ipv64, iwantmyname |-> iwantmyname,
    joker_dmapi |-> joker_dmapi, joker_svc |-> joker_svc, keyhelp |-> keyhelp, liara |-> liara,
    lightsail |-> lightsail, limacity |-> limacity, linode |-> linode, liquidweb |-> liquidweb,
    loopia |-> loopia, luadns |-> luadns, mailinabox |-> mailinabox,
    manageengine |-> manageengine, manual |-> manual, metaname |-> metaname,
    metaregistrar |-> metaregistrar, mijnhost |-> mijnhost, mittwald |-> mittwald,
    myaddr |-> myaddr, mydnsjp |-> mydnsjp, mythicbeasts |-> mythicbeasts,
    namecheap |-> namecheap, namedotcom |-> namedotcom, namesilo |-> namesilo,
    nearlyfreespeech |-> nearlyfreespeech, netcup |-> netcup, netlify |-> netlify,
    nicmanager |-> nicmanager, nicru |-> nicru, nifcloud |-> nifcloud, njalla |-> njalla,
    nodion |-> nodion, ns1 |-> ns1, octenium |-> octenium, oraclecloud |-> oraclecloud,
    otc |-> otc, ovh |-> ovh, pdns |-> pdns, plesk |-> plesk, porkbun |-> porkbun,
    rackspace |-> rackspace, rainyun |-> rainyun, rcodezero |-> rcodezero, regfish |-> regfish,
    regru |-> regru, rfc2136 |-> rfc2136, route53 |-> route53, safedns |-> safedns,
    sakuracloud |-> sakuracloud, scaleway |-> scaleway, selectelv2 |-> selectelv2,
    selfhostde |-> selfhostde, servercow |-> servercow, shellrent |-> shellrent,
    simply |-> simply, sonic |-> sonic, spaceship |-> spaceship, stackpath |-> stackpath,
    syse |-> syse, technitium |-> technitium, tencentcloud |-> tencentcloud,
    timewebcloud |-> timewebcloud, transip |-> transip, ultradns |-> ultradns,
    variomedia |-> variomedia, vegadns |-> vegadns, vercel |-> vercel, versio |-> versio,
    vinyldns |-> vinyldns, vkcloud |-> vkcloud, volcengine |-> volcengine, vultr |-> vultr,
    webnames |-> webnames, webnamesca |-> webnamesca, wedos |-> wedos, westcn |-> westcn,
    yandex |-> yandex, yandex360 |-> yandex360, yandexcloud |-> yandexcloud,
    zoneedit |-> zoneedit, zoneee |-> zoneee, active24 |-> active24, gcore |-> gcore,
    hostingde |-> hostingde, ionos |-> ionos, rimuhosting |-> rimuhosting, selectel |-> selectel,
    tecnocratica |-> tecnocratica, cloudxns |-> cloudxns]
=============================================================================
