-------------------------------- MODULE Decoders --------------------------------
(***************************************************************************)
(* The read-only resources of kasapi-cli (internal/account, server, dns,   *)
(* domain, subdomain, softwareinstall, mailfilter, usage): how the         *)
(* ReturnInfo of an action becomes entries, and what a table shows of one. *)
(*                                                                         *)
(* Fields are the keys a decoder takes over, by how it reads them.  An     *)
(* entry is a function from those keys to what was read.                   *)
(***************************************************************************)
EXTENDS SoapValue

Fields(strings, ints, floats, truths, strict) ==
    [strings |-> strings, ints |-> ints, floats |-> floats, truths |-> truths,
     strict |-> strict]
AllOf(fields) ==
    fields.strings \cup fields.ints \cup fields.floats \cup fields.truths \cup fields.strict

Links == {"show_direct_links_wbk", "show_direct_links_sambausers",
          "show_direct_links_accounts", "show_direct_links_mailaccounts",
          "show_direct_links_ftpuser", "show_direct_links_databases"}

AccountFields ==
    Fields({"account_login", "account_password", "inst_htaccess", "inst_fpse",
            "inst_software", "kas_access_forbidden", "logging", "statistic",
            "show_password", "dns_settings", "ssh_access", "account_2fa",
            "account_2fa_inherited", "account_comment", "account_contact_mail",
            "in_progress"} \cup Links,
           {"max_account", "max_domain", "max_subdomain", "max_webspace",
            "max_mail_account", "max_mail_forward", "max_mail_list", "max_databases",
            "max_ftpuser", "max_sambauser", "max_cronjobs", "max_wbk", "logage",
            "show_direct_links"},
           {"used_account_space"}, {}, {})

SettingsFields ==
    Fields({"account_login", "account_comment", "account_contact_mail", "is_superuser",
            "account_password", "show_password", "logging", "statistic", "dns_settings",
            "inst_htaccess", "inst_fpse", "inst_software", "ssh_access", "ssh_keys",
            "ssh_php_version", "server", "in_progress", "account_2fa",
            "account_2fa_inherited"} \cup Links,
           {"logage"}, {}, {}, {})

ServiceFields ==
    Fields({"service", "version", "version_type", "interface", "file_extension",
            "distribution"}, {}, {}, {}, {})

RecordFields ==
    Fields({"record_zone", "record_name", "record_type", "record_data", "record_id",
            "record_changeable", "record_deleteable"}, {"record_aux"}, {}, {}, {})

SSL == {"ssl_proxy", "ssl_certificate_ip", "ssl_certificate_sni",
        "ssl_certificate_sni_is_active", "ssl_certificate_sni_csr",
        "ssl_certificate_sni_key", "ssl_certificate_sni_crt", "ssl_certificate_sni_bundle",
        "ssl_certificate_sni_chainfile", "ssl_certificate_sni_type",
        "ssl_certificate_sni_force_https", "ssl_certificate_sni_hsts_max_age"}

DomainFields ==
    Fields({"domain_name", "domain_tld", "domain_path", "domain_account", "domain_server",
            "dummy_host", "dkim_selector", "fpse_active", "php_version", "php_deprecated",
            "is_active", "in_progress", "statistic_language"} \cup SSL,
           {"domain_redirect_status", "statistic_version"}, {}, {}, {})

TLDFields == Fields({"tld_name"}, {"tld_minlen", "tld_maxlen"}, {}, {}, {})

SubdomainFields ==
    Fields({"subdomain_name", "subdomain_path", "subdomain_account", "subdomain_server",
            "fpse_active", "php_version", "php_deprecated", "is_active", "in_progress",
            "statistic_language"} \cup SSL,
           {"subdomain_redirect_status", "statistic_version"}, {}, {}, {})

SoftwareInstallFields ==
    Fields({"software_id", "software_name", "software_category", "software_version",
            "software_licence", "description", "image", "software_has_example_data",
            "software_version_php", "software_version_php_upto",
            "software_version_php_htaccess", "software_version_php_want_cgi",
            "software_version_mysql", "software_version_mysql_upto",
            "software_version_mariadb", "software_version_mariadb_upto",
            "software_can_be_installed", "software_can_be_message"}, {}, {}, {}, {})

StandardFilterFields == Fields({"filter", "type", "title", "recommended"}, {}, {}, {}, {})

SpaceFields ==
    Fields({"account_login"},
           {"last_calculation", "used_htdocs_space", "used_chroot_space",
            "used_database_space", "used_mailaccount_space", "used_webspace",
            "max_webspace"}, {}, {}, {})

SpaceUsageFields ==
    Fields({"directory"}, {"count", "bytes", "last_calculation"}, {}, {"has_sub_dirs"}, {})

TrafficFields ==
    Fields({"account_login", "comment"},
           {"day", "http_traffic", "ftp_traffic", "http_hits", "ftp_hits"}, {}, {},
           {"year", "month"})

QuotaFields ==
    Fields({}, {}, {}, {"exceeded"}, {"max", "reserved", "created", "used", "free"})

Resources ==
    {"max_subdomain", "max_domain", "max_wbk", "max_ftpuser", "max_sambauser",
     "max_account", "max_webspace", "max_database", "max_mail_account",
     "max_mail_forward", "max_mailinglist", "max_cronjobs"}

-------------------------------------------------------------------------------

\* getYN and getBool agree on the texts of the model.
getBool(v) == AsString(v) \in {"true", "1", "Y"}

\* One entry, or an error if a number it must have is missing or malformed.
DecodeEntry(fields, row) ==
    [ok |-> \A k \in fields.strict : MapIntStrict(row, k).ok,
     entry |-> [k \in AllOf(fields) |->
                  CASE k \in fields.strings -> MapString(row, k)
                    [] k \in fields.ints -> MapInt(row, k)
                    [] k \in fields.floats -> MapFloat(row, k)
                    [] k \in fields.truths -> getBool(Get(row, k))
                    [] k \in fields.strict -> MapIntStrict(row, k).n]]

Refused == [ok |-> FALSE, entries |-> <<>>]

\* Every row becomes an entry, or none does.
Entries(fields, rows) ==
    LET decoded == [i \in DOMAIN rows |-> DecodeEntry(fields, rows[i])]
    IN  IF \A i \in DOMAIN rows : decoded[i].ok
        THEN [ok |-> TRUE, entries |-> [i \in DOMAIN rows |-> decoded[i].entry]]
        ELSE Refused

DecodeList(fields, info) ==
    IF DecodeArray(info).ok THEN Entries(fields, DecodeArray(info).rows) ELSE Refused

\* A Map of Maps, by day.
DecodeTraffic(info) ==
    LET rows == [i \in DOMAIN info.items |-> info.items[i].value]
    IN  IF info.kind = "map" /\ \A i \in DOMAIN rows : rows[i].kind = "map"
        THEN Entries(TrafficFields, rows) ELSE Refused

mapOfStringSlices(v) ==
    LET kept == {i \in DOMAIN v.items : v.items[i].value.kind \in {"array", "string"}}
        strings(w) == IF w.kind = "string" THEN <<w.str>>
                      ELSE [i \in DOMAIN w.items |-> AsString(w.items[i].value)]
    IN  IF v.kind # "map" THEN Nil.items
        ELSE [k \in {v.items[i].key : i \in kept} |->
                strings(Latest(Value("map", "", 0,
                                     SelectSeq(v.items, LAMBDA item :
                                        item.value.kind \in {"array", "string"})), k))]

decodeUserPrefs(settings) ==
    LET prefs == Get(settings, "user_prefs")
    IN  [per_page |-> MapInt(prefs, "per_page"),
         expandableTables |-> mapOfStringSlices(Get(prefs, "expandableTables")),
         pinnedTables |-> mapOfStringSlices(Get(prefs, "pinnedTables"))]

decodeFingerprints(settings) ==
    LET prints == Get(settings, "ssh_fingerprints")
    IN  IF prints.kind # "map" THEN Nil.items
        ELSE [k \in {prints.items[i].key : i \in DOMAIN prints.items} |->
                [MD5 |-> MapString(Latest(prints, k), "MD5:"),
                 SHA256 |-> MapString(Latest(prints, k), "SHA256:")]]

DecodeAccountSettings(info) ==
    LET settings == Get(info, "settings")
    IN  IF settings.kind # "map" THEN Refused
        ELSE [ok |-> TRUE,
              entries |-> <<[k \in AllOf(SettingsFields) \cup {"user_prefs", "ssh_fingerprints"} |->
                               CASE k = "user_prefs" -> decodeUserPrefs(settings)
                                 [] k = "ssh_fingerprints" -> decodeFingerprints(settings)
                                 [] OTHER -> DecodeEntry(SettingsFields, settings).entry[k]]>>]

\* What is no Map is no quota, and reads as zero.
ZeroQuota == DecodeEntry(QuotaFields, Nil).entry
decodeQuota(v) ==
    IF v.kind # "map" THEN [ok |-> TRUE, entry |-> ZeroQuota]
    ELSE DecodeEntry(QuotaFields, v)

\* Every quota is decoded, also one under a key nobody knows.
DecodeAccountResources(info) ==
    IF \/ info.kind # "map"
       \/ \E i \in DOMAIN info.items : ~decodeQuota(info.items[i].value).ok
    THEN Refused
    ELSE [ok |-> TRUE,
          entries |-> <<[r \in Resources |-> decodeQuota(Latest(info, r)).entry]>>]

-------------------------------------------------------------------------------
\* Tables.  PEM bodies are summarised in a detail view, so they are left out.

AccountRow == {"account_login", "account_comment", "account_contact_mail", "max_domain",
               "max_webspace", "used_account_space", "account_2fa", "in_progress"}
AccountDetailWithPassword ==
    AllOf(AccountFields) \ (Links \cup {"show_direct_links"})
AccountDetail ==
    AllOf(AccountFields) \ (Links \cup {"show_direct_links", "account_password"})
SettingsDetail ==
    {"account_login", "account_comment", "account_contact_mail", "is_superuser", "server",
     "logging", "logage", "statistic", "dns_settings", "inst_htaccess", "inst_fpse",
     "inst_software", "ssh_access", "ssh_php_version", "account_2fa", "in_progress",
     "user_prefs"}
PEM == {"ssl_certificate_sni_csr", "ssl_certificate_sni_key", "ssl_certificate_sni_crt",
        "ssl_certificate_sni_bundle", "ssl_certificate_sni_chainfile"}
DomainRow == {"domain_name", "domain_account", "php_version", "ssl_certificate_sni_type",
              "is_active", "in_progress"}
DomainDetail == AllOf(DomainFields) \ PEM
SubdomainRow == {"subdomain_name", "subdomain_account", "php_version",
                 "ssl_certificate_sni_type", "is_active", "in_progress"}
SubdomainDetail == AllOf(SubdomainFields) \ PEM
SoftwareInstallRow ==
    {"software_id", "software_name", "software_category", "software_version",
     "software_version_php", "software_version_php_upto", "software_version_mariadb",
     "software_version_mariadb_upto", "software_version_mysql",
     "software_version_mysql_upto", "software_can_be_installed"}
SoftwareInstallDetail == AllOf(SoftwareInstallFields) \ {"image"}
SpaceRow == AllOf(SpaceFields) \ {"last_calculation", "used_chroot_space"}
SpaceUsageRow == {"directory", "count", "bytes", "has_sub_dirs"}
TrafficRow == AllOf(TrafficFields) \ {"comment"}
===============================================================================
