--------------------------- MODULE Certification ---------------------------
(***************************************************************************)
(* The certification of accounts: X509, its owner, authorities, users and  *)
(* the REST handlers, interleaved.                                         *)
(***************************************************************************)
EXTENDS X509

OwnerCalls ==
  \/ \E pair \in Anchors : setTrustedPublicKey(pair[1], pair[2])
  \/ \E on \in BOOLEAN : enableAllowlisting(on)
  \/ \E m \in Masks : setUsageBitMaskEndUser(m) \/ setUsageBitMaskIntermediate(m)
  \/ \E S \in OidSets : addExtendedKeyUsage(S) \/ addCertificatePolicies(S)
  \/ removeExtendedKeyUsage
  \/ removeCertificatePolicies

AnyonesCalls ==
  \/ \E c \in Certs : ValidateIntermediate(Fields[c])
  \/ \E c \in Certs, g \in 0 .. MaxGroups : \E s \in Signatures, a \in Addr :
       ValidateEndUser(Fields[c], s, g, a)
  \/ \E a \in Addr, k \in Kid \cup {NoKid} : revokeKeyFromUserAddress(a, k)
  \/ \E a \in Addr, k \in Kid, s \in Signatures : revokeKeyByAddressSignature(a, k, s)

Requests ==
  \/ \E a \in Clients, c \in Certs : RequestCertification(a, c)
  \/ \E a \in Clients, k \in Keys : EnrolRequested(a, k)

Next ==
  \/ OwnerCalls
  \/ AnyonesCalls
  \/ Requests
  \/ Tick

Spec == Init /\ [][Next]_vars

-----------------------------------------------------------------------------
(* Properties *)

TypeOK ==
  /\ now \in Start .. MaxTime
  /\ expires \in [Addr -> Nat]
  /\ trustedPublicKeys \in [Kid -> Keys \cup {NoKey}]
  /\ revokedKeys \subseteq Kid \cup {NoKid}
  /\ keysByUser \in [Addr -> Kid \cup {NoKid}]
  /\ addressByKey \in [Kid -> Addr \cup {NoAddr}]
  /\ users \subseteq Addr
  /\ allowlisting \in BOOLEAN
  /\ usageBitMaskEndUser \subseteq 0 .. 7 /\ usageBitMaskIntermediate \subseteq 0 .. 7
  /\ extendedKeyUsageOIDs \in Seq(OidSets) /\ certificatePoliciesOIDs \in Seq(OidSets)
  /\ \A a \in Clients : request[a] = <<>> \/ Head(request[a]) \in Certs

\* The two mappings are each other's inverse and a revoked key is in neither,
\* over any order of enrolments, renewals and revocations.
BindingIsOneToOne ==
  /\ \A a \in Addr, k \in Kid : keysByUser[a] = k <=> addressByKey[k] = a
  /\ \A k \in revokedKeys \cap Kid : addressByKey[k] = NoAddr

\* The identifier and key of every certificate that one of the pairs signed.
Signed(pairs) ==
  {<<Fields[c].skid, c.key>> :
     c \in {d \in Certs : \E p \in pairs : d.signature = [by |-> p[2], over |-> d.tbs]}}

Pairs == Anchors \cup {<<Fields[c].skid, c.key>> : c \in Certs}

\* The pairs that a chain of signatures leads to from those given: the ones
\* in every set that has these and what it signs.
Chain(pairs) ==
  {p \in Pairs : \A S \in SUBSET Pairs : pairs \cup Signed(S) \subseteq S => p \in S}

\* Every trusted key was set by the owner or certified, at some remove, by a
\* key that was.
TrustIsRooted ==
  LET rooted == Chain(anchors)
  IN \A k \in Kid : trustedPublicKeys[k] # NoKey => <<k, trustedPublicKeys[k]>> \in rooted

\* An enrolled address belongs to the holder of the private key of a
\* certificate that a chain of signatures roots in a key of the owner's,
\* whoever sent the enrolment.
EnrolledHoldsTheKey ==
  \A a \in Addr : keysByUser[a] # NoKid =>
    \E pair \in Chain(anchors) : pair[1] = keysByUser[a] /\ a \in HolderOf[pair[2]]

\* An enrolment lasts: an enrolled address in good standing loses it only to
\* time or to allowlisting being turned on.  Nobody's enrolment ends it, with
\* an older certificate neither; nor does the revocation of its own key, which
\* takes the key from the address and leaves the expiry and the allowlist
\* entry, unless the identifier zero is revoked too.
EnrolmentLasts ==
  [][\A a \in Addr : keysByUser[a] # NoKid /\ x509Check(a) /\ ~x509Check(a)' =>
       \/ now' # now
       \/ keysByUser[a] \in revokedKeys' \ revokedKeys /\ NoKid \in revokedKeys'
       \/ allowlisting' # allowlisting]_vars

\* A certificate with its extensions in another order, some of them critical.
Rearranged(c, order, critical) ==
  [c EXCEPT !.extensions = [i \in DOMAIN order |->
     [c.extensions[order[i]] EXCEPT !.critical = (c.extensions[order[i]].oid \in critical)]]]

Arrangements(n) == {f \in [1 .. n -> 1 .. n] : \A i, j \in 1 .. n : f[i] = f[j] => i = j}

Flagged == {keyUsage, extKeyUsage, certificatePolicies}

ReadBack(c, order, critical) ==
  LET elements == Encode(CertificateShape(Rearranged(c, order, critical)))
      tlvs == parseDER(elements, computeNumberOfTlvs(elements))
      content(oid) == c.extensions[CHOOSE i \in DOMAIN c.extensions : c.extensions[i].oid = oid].content
  IN /\ getSignature(tlvs, Len(tlvs)) = c.signature /\ getMessage(tlvs) = c.tbs
     /\ Dates(tlvs) = <<c.notBefore, c.notAfter>> /\ extractPublicKey(tlvs) = c.key
     /\ extractSubjectKeyIdentifier(tlvs) = content(subjectKeyIdentifier)
     /\ extractAuthorityKeyIdentifier(tlvs) = content(authorityKeyIdentifier)
     /\ \A oid \in Flagged : Extension(tlvs, oid) = content(oid)

Readable ==
  [c \in Certs |-> \A order \in Arrangements(Len(c.extensions)), critical \in {{}, Flagged} :
                     ReadBack(c, order, critical)]

\* No certificate is read as holding what it does not hold: the read fails.
ParserIsSound ==
  \A c \in Certs : LET f == Fields[c]
                   IN /\ f.akid \in Kid \cup {Failed} /\ f.skid \in Kid \cup {Failed}
                      /\ f.key \in {c.key, Failed} /\ f.until \in Nat
                      /\ f.signature \in {c.signature, Failed} /\ f.message = c.tbs
                      /\ f.dates \in {<<c.notBefore, c.notAfter>>, Failed}

\* The readers of X509.sol, which count sequences and elements in a flat list,
\* find the fields that an accepted certificate was made of, and would in any
\* order of its extensions and with those three marked critical; and they
\* misread no certificate that is refused.
ReadersFindTheFields ==
  /\ ParserIsSound
  /\ \A a \in Clients : request[a] # <<>> => Readable[Head(request[a])]

\* The days of the calendar since 1970; a two-digit year names one of 2000 to
\* 2099, of which every fourth is a leap year.
Months(y) == <<31, IF y % 4 = 0 THEN 29 ELSE 28, 31, 30, 31, 30, 31, 31, 30, 31, 30, 31>>

CalendarDay(date) ==
  10957 + SumFunction([y \in 0 .. date[1] - 1 |-> IF y % 4 = 0 THEN 366 ELSE 365])
        + SumFunction([m \in 1 .. date[2] - 1 |-> Months(date[1])[m]]) + date[3] - 1

\* The dates that a UTCTime can name.
IsDate(date) == /\ date[1] \in 0 .. 99 /\ date[2] \in 1 .. 12
                /\ date[3] \in 1 .. Months(date[1])[date[2]]

CalendarDates == \A c \in Certs : IsDate(c.notAfter)

\* An address stays enrolled to the end of the day before the one on which a
\* certificate for its key ends, by the calendar, through renewals and leap
\* days.
ExpiryIsTheCalendarDay ==
  \A a \in Addr : keysByUser[a] # NoKid =>
    \E c \in Certs : /\ Fields[c].skid = keysByUser[a]
                     /\ expires[a] = CalendarDay(c.notAfter) * SECONDS_PER_DAY

=============================================================================
