----------------------------- MODULE TlsContext -----------------------------
(***************************************************************************)
(* tls_context: portable settings, from which each backend builds a native *)
(* context once, and what the native contexts make of a peer.  Settings    *)
(* change only before the first stream, as the class requires.  What the   *)
(* TLS libraries do with a setting is external; a setting is the way the   *)
(* library answers to it: "" (not given), "ok" or "bad" (rejected).        *)
(***************************************************************************)
EXTENDS Integers, Sequences, SequencesExt

CONSTANT MaxSettings   \* calls that configure the context

VARIABLES cd,        \* tls_context_data
          build,     \* what the linked wolfSSL supports
          native,    \* the cached native context of each backend
          verdict,   \* the last handshake: its backend, role, peer and outcome
          settings
tc_vars == <<cd, build, native, verdict, settings>>

Backends == {"openssl", "wolfssl"}
NoNative == [built |-> FALSE, failed |-> FALSE, cred |-> "", key |-> "", ca |-> FALSE,
             versions |-> {}, crl |-> "", flag |-> "none", verify |-> "none", alpn |-> <<>>]
Defaults == [entity |-> "", chain |-> "", private_key |-> "", pkcs12 |-> "", ca |-> "",
             min |-> 12, max |-> 13, ciphers |-> "", ciphers13 |-> "", alpn |-> <<>>,
             mode |-> "none", callback |-> "none", sni |-> "none", crl |-> "", revocation |-> "disabled"]
Given == {"ok", "bad"}
TcInit ==
    /\ cd \in {[Defaults EXCEPT !.revocation = r, !.mode = m, !.entity = g, !.private_key = g, !.ca = g] :
                 r \in {"disabled", "soft_fail", "hard_fail"}, m \in {"none", "peer", "require_peer"}, g \in {"", "ok"}}
    /\ build \in {[callback |-> TRUE, alpn |-> TRUE, crl |-> TRUE], [callback |-> FALSE, alpn |-> FALSE, crl |-> FALSE]}
    /\ build.crl \/ cd.entity = "ok"
    /\ native = [b \in Backends |-> NoNative]
    /\ verdict = [backend |-> "none"] /\ settings = 0

---------------------------------------------------------------------------
(* Settings *)

Configure(c) ==
    /\ settings < MaxSettings /\ \A b \in Backends : ~native[b].built
    /\ verdict.backend = "none"
    /\ cd' = c /\ settings' = settings + 1 /\ UNCHANGED <<build, native, verdict>>
use_certificate == \E x \in Given : Configure([cd EXCEPT !.entity = x])
use_certificate_chain == \E x \in Given : Configure([cd EXCEPT !.chain = x])
use_private_key == \E x \in Given : Configure([cd EXCEPT !.private_key = x])
use_pkcs12 == \E x \in Given : Configure([cd EXCEPT !.pkcs12 = x])
\* a file that cannot be read leaves the setting as it was
read_file_contents(readable, old, new) == IF readable THEN new ELSE old
use_certificate_file == \E x \in Given, r \in BOOLEAN : Configure([cd EXCEPT !.entity = read_file_contents(r, @, x)])
use_private_key_file == \E x \in Given, r \in BOOLEAN : Configure([cd EXCEPT !.private_key = read_file_contents(r, @, x)])
use_pkcs12_file == \E x \in Given, r \in BOOLEAN : Configure([cd EXCEPT !.pkcs12 = read_file_contents(r, @, x)])
add_certificate_authority == \E x \in Given : Configure([cd EXCEPT !.ca = x])
load_verify_file == \E x \in Given, r \in BOOLEAN : Configure([cd EXCEPT !.ca = read_file_contents(r, @, x)])
set_min_protocol_version == \E v \in {12, 13} : Configure([cd EXCEPT !.min = v])
set_max_protocol_version == \E v \in {12, 13} : Configure([cd EXCEPT !.max = v])
set_ciphersuites == \E x \in Given : Configure([cd EXCEPT !.ciphers = x])
set_ciphersuites_tls13 == \E x \in Given : Configure([cd EXCEPT !.ciphers13 = x])
\* a list with a name that cannot be sent ("") is refused and the old list stays
set_alpn == \E l \in {<<"h2">>, <<"h2", "h1">>, <<"h2", "">>} :
                Configure([cd EXCEPT !.alpn = IF Contains(l, "") THEN @ ELSE l])
set_verify_callback == \E c \in {"accept", "reject", "keep"} : Configure([cd EXCEPT !.callback = c])
set_servername_callback == \E c \in {"accept", "reject"} : Configure([cd EXCEPT !.sni = c])
\* the last of several CRLs decides here: all must parse
add_crl == \E x \in Given : Configure([cd EXCEPT !.crl = IF @ = "bad" THEN @ ELSE x])
add_crl_file == \E x \in Given, r \in BOOLEAN : Configure([cd EXCEPT !.crl = IF @ = "bad" THEN @ ELSE read_file_contents(r, @, x)])

---------------------------------------------------------------------------
(* The native contexts.  "Bad" settings either fail the setup or load nothing. *)

Inverted == cd.min > cd.max
openssl_proto_version == IF Inverted THEN {} ELSE cd.min .. cd.max
OpensslPkcs12Failed == cd.pkcs12 = "bad"
OpensslCiphersFailed == cd.ciphers = "bad" \/ cd.ciphers13 = "bad"
OpensslCrlsFailed == cd.revocation # "disabled" /\ cd.crl = "bad"
\* the entity certificate is loaded first, a chain that parses replaces it
OpensslEntity == IF cd.entity = "ok" THEN "entity" ELSE ""
OpensslChain == IF cd.chain = "ok" THEN "chain" ELSE OpensslEntity
OpensslCred == IF cd.pkcs12 = "ok" THEN "bundle" ELSE IF cd.pkcs12 = "bad" THEN "" ELSE OpensslChain
OpensslKey == IF cd.pkcs12 # "" THEN cd.pkcs12 ELSE cd.private_key
OpensslTrust == cd.ca = "ok"
NeedTrampoline == cd.callback # "none" \/ cd.revocation # "disabled"
openssl_native_context ==
    [built |-> TRUE,
     failed |-> Inverted \/ OpensslPkcs12Failed \/ OpensslCiphersFailed \/ OpensslCrlsFailed,
     cred |-> OpensslCred, key |-> OpensslKey, ca |-> OpensslTrust, versions |-> openssl_proto_version,
     crl |-> IF cd.revocation = "disabled" THEN "" ELSE cd.crl,
     flag |-> cd.mode, verify |-> IF NeedTrampoline THEN "trampoline" ELSE "none", alpn |-> cd.alpn]

wolfssl_method_for == IF cd.min = 13 THEN {13} ELSE IF cd.max = 12 THEN {12} ELSE {12, 13}
wolfssl_min_version == {v \in {12, 13} : v >= cd.min}
WolfPkcs12Failed == cd.pkcs12 = "bad"
WolfVersionsFailed == Inverted
\* both lists go to the library as one
WolfCiphersFailed == "bad" \in {cd.ciphers, cd.ciphers13}
WolfCrlsFailed == build.crl /\ cd.revocation # "disabled" /\ cd.crl = "bad"
\* a chain that was given is used, whether it loads or not
WolfCred == CASE cd.pkcs12 = "ok" -> "bundle" [] cd.pkcs12 = "bad" -> ""
              [] cd.pkcs12 = "" /\ cd.chain # "" -> IF cd.chain = "ok" THEN "chain" ELSE ""
              [] OTHER -> IF cd.entity = "ok" THEN "entity" ELSE ""
WolfKey == IF cd.pkcs12 # "" THEN cd.pkcs12 ELSE cd.private_key
WolfTrust == cd.ca = "ok"
apply_common_settings ==
    [built |-> TRUE,
     failed |-> WolfPkcs12Failed \/ WolfVersionsFailed \/ WolfCiphersFailed \/ WolfCrlsFailed,
     cred |-> WolfCred, key |-> WolfKey, ca |-> WolfTrust, versions |-> wolfssl_method_for \cap wolfssl_min_version,
     crl |-> IF cd.revocation = "disabled" \/ ~build.crl THEN "" ELSE cd.crl,
     flag |-> cd.mode, verify |-> IF build.callback /\ cd.callback # "none" THEN "trampoline" ELSE "none",
     alpn |-> cd.alpn]
Native(b) == IF native[b].built THEN native[b]
             ELSE IF b = "openssl" THEN openssl_native_context ELSE apply_common_settings

---------------------------------------------------------------------------
(* What a handshake makes of a peer *)

\* a peer's certificate, the newest version it speaks, its ALPN list and the name it asks for
Peers == [cert : {"none", "good", "revoked", "unlisted", "untrusted"}, version : {12, 13},
          alpn : {<<"h1", "h2">>}, name : {"n"}]
         \cup [cert : {"good"}, version : {13}, alpn : {<<>>, <<"h1", "h2">>, <<"x">>}, name : {"", "n"}]
\* the library's own check (external): unlisted has no CRL entry to decide by
Preverified(n, c, soft) ==
    /\ n.ca /\ c # "untrusted"
    /\ cd.revocation # "disabled" => IF n.crl = "" \/ c = "unlisted" THEN soft ELSE c # "revoked"
UserVerdict(ok) == CASE cd.callback = "accept" -> TRUE [] cd.callback = "reject" -> FALSE [] OTHER -> ok
\* errors that leave the status of a certificate open
StatusUnknown(n, c) == n.ca /\ c # "untrusted" /\ (n.crl = "" \/ c = "unlisted")
verify_callback_trampoline(n, c) ==
    LET ok == Preverified(n, c, FALSE) IN
    UserVerdict(ok \/ (cd.revocation = "soft_fail" /\ StatusUnknown(n, c)))
\* wolfSSL downgrades an unknown status in the CRL callback, before the user's callback
wolfssl_crl_soft_fail_cb == build.crl /\ cd.revocation = "soft_fail"
wolfssl_verify_callback(n, c) ==
    LET ok == Preverified(n, c, wolfssl_crl_soft_fail_cb) IN
    IF n.verify = "trampoline" THEN UserVerdict(ok) ELSE ok
CertOk(b, n, role, c) ==
    \/ n.flag = "none"
    \/ c = "none" /\ role = "server" /\ n.flag = "peer"
    \/ /\ c # "none"
       /\ IF b = "wolfssl" THEN wolfssl_verify_callback(n, c)
          ELSE IF n.verify = "trampoline" THEN verify_callback_trampoline(n, c) ELSE Preverified(n, c, FALSE)

\* the server's most preferred protocol that the client offers
Offered(prefs, offer) == {i \in 1 .. Len(prefs) : Contains(offer, prefs[i])}
alpn_select_cb(prefs, offer) ==
    LET m == Offered(prefs, offer) IN
    CASE prefs = <<>> \/ offer = <<>> -> "none"
      [] m # {} -> prefs[CHOOSE i \in m : \A j \in m : i <= j]
      [] OTHER -> "fatal"
sni_callback(name) == name = "" \/ cd.sni # "reject"

\* wolfSSL refuses what the linked build cannot do, OpenSSL needs nothing here
init_ssl_for_role(n) ==
    IF n.failed THEN "invalid"
    ELSE IF (cd.callback # "none" /\ ~build.callback) \/ (cd.alpn # <<>> /\ ~build.alpn)
            \/ (cd.revocation # "disabled" /\ ~build.crl)
    THEN "unsupported" ELSE "ok"
Setup(b, n) == IF b = "wolfssl" THEN init_ssl_for_role(n) ELSE IF n.failed THEN "invalid" ELSE "ok"
Negotiate(n, role, p) ==
    /\ \E v \in n.versions : v <= p.version
    /\ role = "server" => /\ n.cred # "" /\ n.key = "ok" /\ sni_callback(p.name)
                          /\ alpn_select_cb(n.alpn, p.alpn) # "fatal"
Outcome(b, n, role, p) ==
    IF Setup(b, n) # "ok" THEN Setup(b, n)
    ELSE IF Negotiate(n, role, p) /\ CertOk(b, n, role, p.cert) THEN "ok" ELSE "refused"
\* find(): the native context is built once, here by the first stream to handshake
Handshake(b, role, p) ==
    /\ verdict.backend = "none" \/ (verdict.backend = "openssl" /\ b = "wolfssl")
    /\ role = "client" => p.cert # "none" /\ p.name = "n" /\ p.alpn = <<"h1", "h2">>
    /\ verdict.backend # "none" => role = verdict.role /\ p = verdict.peer /\ ~native[b].built
    /\ native' = [native EXCEPT ![b] = Native(b)]
    /\ LET n == Native(b)
           o == Outcome(b, n, role, p) IN
       verdict' = [backend |-> b, role |-> role, peer |-> p, outcome |-> o,
                   version |-> {v \in n.versions : v <= p.version},
                   alpn |-> alpn_select_cb(n.alpn, p.alpn),
                   first |-> IF verdict.backend = "none" THEN o ELSE verdict.outcome]
    /\ UNCHANGED <<cd, build, settings>>

TcNext ==
    \/ use_certificate \/ use_certificate_chain \/ use_private_key \/ use_pkcs12
    \/ use_certificate_file \/ use_private_key_file \/ use_pkcs12_file
    \/ add_certificate_authority \/ load_verify_file
    \/ set_min_protocol_version \/ set_max_protocol_version \/ set_ciphersuites \/ set_ciphersuites_tls13
    \/ set_alpn \/ set_verify_callback \/ set_servername_callback \/ add_crl \/ add_crl_file
    \/ \E b \in Backends, role \in {"client", "server"}, p \in Peers : Handshake(b, role, p)
TcSpec == TcInit /\ [][TcNext]_tc_vars

---------------------------------------------------------------------------
Shaken == verdict.backend # "none" /\ verdict.outcome = "ok"

\* A handshake completes only if every setting that was given could be applied: a window
\* that admits no version, a rejected cipher list, a bundle or a CRL that does not parse
\* never leaves a context that works with less than was asked for.
FailClosed ==
    Shaken => /\ cd.min <= cd.max /\ "bad" \notin {cd.ciphers, cd.ciphers13, cd.pkcs12}
              /\ cd.revocation # "disabled" => cd.crl # "bad"

\* The version of a completed handshake lies in the configured window.
VersionInWindow == Shaken => verdict.version # {} /\ verdict.version \subseteq cd.min .. cd.max

\* Under either revocation policy a certificate that a loaded CRL revokes is refused, unless
\* the program's own callback accepts it or no verification was asked for.
RevokedIsRefused ==
    Shaken /\ verdict.peer.cert = "revoked" /\ cd.revocation # "disabled" /\ cd.crl = "ok" /\ cd.mode # "none"
    => cd.callback = "accept"

\* A server answers with its own most preferred protocol among those offered.
AlpnServerPrefers ==
    Shaken /\ verdict.role = "server" /\ cd.alpn # <<>> /\ verdict.peer.alpn # <<>> =>
        \E i \in 1 .. Len(cd.alpn) :
            /\ verdict.alpn = cd.alpn[i] /\ Contains(verdict.peer.alpn, cd.alpn[i])
            /\ \A j \in 1 .. i - 1 : ~Contains(verdict.peer.alpn, cd.alpn[j])

\* Both backends come to the same outcome for the same settings and peer, on a wolfSSL with
\* all features, but for a chain that does not parse (OpenSSL keeps the entity
\* certificate).
BackendsAgree ==
    /\ \A b \in Backends : native[b].built
    /\ build.callback /\ cd.chain # "bad"
    => verdict.outcome = verdict.first

=============================================================================
