----------------------------- MODULE TlsRenewal -----------------------------
(***************************************************************************)
(* The gateway's TLS certificate (webtransport.rs, main.rs): made or       *)
(* loaded at start, checked every hour, renewed before it expires and      *)
(* swapped into the QUIC and HTTPS listeners while they run.  Any step of  *)
(* a renewal may fail; the next check takes it up again.                   *)
(***************************************************************************)
EXTENDS Integers

CONSTANTS
    Lifetime,       \* checks a certificate is valid for (13 days)
    RenewBefore,    \* TLS_RENEW_BEFORE, in checks (a day)
    MaxHours,       \* bound: checks
    MaxFailures,    \* checks in a row that fail
    MaxTlsCrashes   \* bound: restarts of the gateway

\* A renewal that starts RenewBefore the end has that many checks to succeed.
RenewAssumption == MaxFailures + 1 < RenewBefore /\ RenewBefore < Lifetime

\* A certificate is the hour it was made in, and has the key of the same number.
VARIABLES
    tFiles,     \* the PEM pair: cert, key (-1 is no file)
    tServed,    \* what the QUIC endpoint and the HTTPS listener serve
    tFinger,    \* tls_cert_sha256_base64, what /tls/fingerprint tells browsers
    tUp,        \* the gateway runs
    tStep,      \* the check in progress: what it does next
    tNew,       \* the certificate being put in place
    tHour, tFails, tCrashes

tvars == <<tFiles, tServed, tFinger, tUp, tStep, tNew, tHour, tFails, tCrashes>>

NoCert == -1
TlsInit ==
    /\ tFiles = [cert |-> NoCert, key |-> NoCert]
    /\ tServed = [quic |-> NoCert, https |-> NoCert]
    /\ tFinger = NoCert /\ tUp = FALSE /\ tStep = "idle" /\ tNew = NoCert
    /\ tHour = 0 /\ tFails = 0 /\ tCrashes = 0

ExpiresAt(c) == c + Lifetime
\* pem_valid_for_webtransport: a certificate that parses and has not expired.
PemValid == tFiles.cert # NoCert /\ tHour < ExpiresAt(tFiles.cert)
\* tls_needs_renewal.
NeedsRenewal_AtExpiry == tFiles.cert = NoCert \/ tHour >= ExpiresAt(tFiles.cert)   \* mutant
NeedsRenewal == tFiles.cert = NoCert \/ ExpiresAt(tFiles.cert) - tHour < RenewBefore

\* main, load_or_generate_tls: the files if both are there and the certificate
\* is valid, else a new pair; both listeners load what is in the files, and
\* refuse a key that is not the certificate's (the gateway does not start).
TlsBoot ==
    /\ ~tUp /\ tStep = "idle"
    /\ LET kept == tFiles.cert # NoCert /\ tFiles.key # NoCert /\ PemValid
           pair == IF kept THEN tFiles ELSE [cert |-> tHour, key |-> tHour]
       IN  /\ pair.cert = pair.key
           /\ tFiles' = pair
           /\ tServed' = [quic |-> pair.cert, https |-> pair.cert]
           /\ tFinger' = pair.cert /\ tUp' = TRUE /\ tStep' = "hour"
    /\ UNCHANGED <<tNew, tHour, tFails, tCrashes>>

\* renew_tls_before_expiry: an hour passes, then the check runs.
TlsHour ==
    /\ tUp /\ tStep = "idle" /\ tHour < MaxHours
    /\ tHour' = tHour + 1 /\ tStep' = "hour"
    /\ UNCHANGED <<tFiles, tServed, tFinger, tUp, tNew, tFails, tCrashes>>

\* check_tls: renew, or finish an earlier renewal.
TlsCheck ==
    /\ tStep = "hour"
    /\ IF NeedsRenewal THEN tStep' = "key" /\ tNew' = tHour ELSE tStep' = "quic" /\ UNCHANGED tNew
    /\ UNCHANGED <<tFiles, tServed, tFinger, tUp, tHour, tFails, tCrashes>>

\* replace_tls_pem: both temporary files are written, then the key is renamed
\* into place, the certificate last.
RenameKey ==
    /\ tStep = "key" /\ tStep' = "cert" /\ tFiles' = [tFiles EXCEPT !.key = tNew]
    /\ UNCHANGED <<tServed, tFinger, tUp, tNew, tHour, tFails, tCrashes>>
RenameCert ==
    /\ tStep = "cert" /\ tStep' = "quic" /\ tFiles' = [tFiles EXCEPT !.cert = tNew]
    /\ UNCHANGED <<tServed, tFinger, tUp, tNew, tHour, tFails, tCrashes>>

\* apply_tls_files: QUIC and the fingerprint together, then HTTPS, each only if
\* it serves another certificate; a pair that does not match is refused.
ApplyQuic_NoFinger ==   \* mutant: the fingerprint is left behind
    /\ tServed' = [tServed EXCEPT !.quic = tFiles.cert] /\ UNCHANGED tFinger
ApplyQuic == tServed' = [tServed EXCEPT !.quic = tFiles.cert] /\ tFinger' = tFiles.cert
SwapQuic ==
    /\ tStep = "quic" /\ tFiles.cert = tFiles.key
    /\ IF tServed.quic # tFiles.cert THEN ApplyQuic ELSE UNCHANGED <<tServed, tFinger>>
    /\ tStep' = "https"
    /\ UNCHANGED <<tFiles, tUp, tNew, tHour, tFails, tCrashes>>
SwapHttps ==
    /\ tStep = "https" /\ tStep' = "idle" /\ tFails' = 0
    /\ tServed' = [tServed EXCEPT !.https = tFiles.cert]
    /\ UNCHANGED <<tFiles, tFinger, tUp, tNew, tHour, tCrashes>>

\* A write, a rename, a read or a reload fails: a warning, and the next check.
TlsFails ==
    /\ tStep \in {"key", "cert", "quic", "https"} /\ tFails < MaxFailures
    /\ tStep' = "idle" /\ tFails' = tFails + 1
    /\ UNCHANGED <<tFiles, tServed, tFinger, tUp, tNew, tHour, tCrashes>>

\* The gateway is restarted between two checks.
TlsCrash ==
    /\ tUp /\ tStep = "idle" /\ tCrashes < MaxTlsCrashes
    /\ tUp' = FALSE /\ tCrashes' = tCrashes + 1
    /\ tServed' = [quic |-> NoCert, https |-> NoCert] /\ tFinger' = NoCert
    /\ UNCHANGED <<tFiles, tStep, tNew, tHour, tFails>>

TlsNext == TlsBoot \/ TlsHour \/ TlsCheck \/ RenameKey \/ RenameCert \/ SwapQuic \/ SwapHttps
           \/ TlsFails \/ TlsCrash
TlsSpec == TlsInit /\ [][TlsNext]_tvars

------------------------------------------------------------------------------
\* A browser that asks for the fingerprint is told the one of the certificate
\* QUIC serves, at every point of a renewal that may fail half way.
FingerprintIsServed == tFinger = tServed.quic

\* No listener is left with an expired certificate while the gateway runs: a
\* renewal that stopped half way is finished in time, whichever step failed.
NeverExpired ==
    tUp => \A l \in {"quic", "https"} : tHour < ExpiresAt(tServed[l])

\* The certificate as browsers meet it.
TlsHolds == FingerprintIsServed /\ NeverExpired
=============================================================================
