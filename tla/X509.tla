-------------------------------- MODULE X509 --------------------------------
(***************************************************************************)
(* X509.sol with Allowlist.sol: which addresses hold a certificate of an   *)
(* authority that the contract trusts; and handle_certificate_validation   *)
(* of validate_certificate.rs, by which a client or proposer enrols its    *)
(* own address.                                                            *)
(*                                                                         *)
(* RSA and the hashes are external: a signature is [by, over] and is valid *)
(* under the key `by` for the message `over`.                              *)
(***************************************************************************)
EXTENDS DerParser

CONSTANTS
  Addr, NoAddr,     \* accounts; the zero address
  Owner,            \* the contract's owner, an account
  Clients,          \* accounts of a client or proposer, which has the REST handler
  Kid, NoKid,       \* key identifiers; bytes32(0)
  Keys, NoKey,      \* RSA public keys; the empty key
  Certs,            \* the certificates there are
  HolderOf,         \* the accounts of the one who has a key's private part
  Anchors,          \* <<identifier, key>> pairs the owner may set
  Masks,            \* usage masks the owner may set
  OidSets,          \* OID groups the owner may add
  MaxGroups,        \* bound on OID groups
  SECONDS_PER_DAY,  \* 86400 in the code
  Start, MaxTime    \* block.timestamp at first and at last

ASSUME X509Assumption ==
  /\ Owner \in Addr /\ Clients \subseteq Addr /\ NoAddr \notin Addr
  /\ NoKid \notin Kid /\ NoKey \notin Keys
  /\ HolderOf \in [Keys -> SUBSET Addr]
  /\ \A c \in Certs : c.key \in Keys
  /\ Anchors \subseteq Kid \X Keys /\ Masks \subseteq SUBSET (0 .. 7)
  /\ MaxGroups \in Nat /\ SECONDS_PER_DAY \in Nat \ {0}
  /\ Start \in Nat /\ MaxTime \in Nat /\ Start <= MaxTime

VARIABLES
  now,                     \* block.timestamp
  expires,                 \* when an address's certificate ends
  trustedPublicKeys,       \* key of a key identifier
  revokedKeys,             \* revoked key identifiers
  keysByUser,              \* key identifier of an address
  addressByKey,            \* address of a key identifier
  users,                   \* the allowlist
  allowlisting,            \* whether it is used
  usageBitMaskEndUser, usageBitMaskIntermediate,
  extendedKeyUsageOIDs, certificatePoliciesOIDs,
  request,                 \* the certificate that each client's REST handler has checked
  anchors                  \* history: <<identifier, key>> pairs set by the owner

policyVars == <<usageBitMaskEndUser, usageBitMaskIntermediate, extendedKeyUsageOIDs,
                certificatePoliciesOIDs>>
enrolVars == <<expires, keysByUser, addressByKey, users>>
trustVars == <<trustedPublicKeys, revokedKeys, anchors>>
vars == <<now, enrolVars, trustVars, policyVars, allowlisting, request>>

\* initialize: bit 7 is digitalSignature (0x80), bits 2 and 1 keyCertSign and
\* cRLSign (0x06).
Init ==
  /\ now = Start
  /\ expires = [a \in Addr |-> 0]
  /\ trustedPublicKeys = [k \in Kid |-> NoKey]
  /\ revokedKeys = {} /\ anchors = {}
  /\ keysByUser = [a \in Addr |-> NoKid] /\ addressByKey = [k \in Kid |-> NoAddr]
  /\ users = {} /\ allowlisting = TRUE
  /\ usageBitMaskEndUser = {7} /\ usageBitMaskIntermediate = {1, 2}
  /\ extendedKeyUsageOIDs = <<>> /\ certificatePoliciesOIDs = <<>>
  /\ request = [a \in Clients |-> <<>>]

-----------------------------------------------------------------------------
(* Dates *)

\* Solidity divides towards zero.
Quotient(a, b) == IF a >= 0 THEN a \div b ELSE -((-a) \div b)

OFFSET19700101 == 2440588

\* Mutant: division rounds down.
FlooredDays(y, m, d) ==
  d - 32075 + (1461 * (y + 4800 + (m - 14) \div 12)) \div 4
    + (367 * (m - 2 - ((m - 14) \div 12) * 12)) \div 12
    - (3 * ((y + 4900 + (m - 14) \div 12) \div 100)) \div 4 - OFFSET19700101

DaysFromDate(y, m, d) ==
  LET early == Quotient(m - 14, 12)
  IN d - 32075 + Quotient(1461 * (y + 4800 + early), 4)
       + Quotient(367 * (m - 2 - early * 12), 12)
       - Quotient(3 * Quotient(y + 4900 + early, 100), 4) - OFFSET19700101

\* A UTCTime has two digits of the year; the time of day is not looked at.
timestampFromDate(date) == DaysFromDate(date[1] + 2000, date[2], date[3]) * SECONDS_PER_DAY

\* Mutant: a certificate that has ended is taken.
UncheckedDates(f) == f.until

\* The expiry of a certificate in date.
checkDates(f) ==
  IF f.dates # Failed /\ now > f.from /\ now < f.until THEN f.until ELSE 0

\* The fields of each certificate as the contract reads them; callers pass
\* the length that computeNumberOfTlvs gives.
Fields ==
  [c \in Certs |->
     LET elements == Encode(CertificateShape(c))
         tlvs == parseDER(elements, computeNumberOfTlvs(elements))
         dates == Dates(tlvs)
     IN [akid |-> extractAuthorityKeyIdentifier(tlvs), skid |-> extractSubjectKeyIdentifier(tlvs),
         key |-> extractPublicKey(tlvs), dates |-> dates,
         from  |-> IF dates = Failed THEN 0 ELSE timestampFromDate(dates[1]),
         until |-> IF dates = Failed THEN 0 ELSE timestampFromDate(dates[2]),
         signature |-> getSignature(tlvs, Len(tlvs)), message |-> getMessage(tlvs),
         usage |-> Extension(tlvs, keyUsage), extended |-> Extension(tlvs, extKeyUsage),
         policies |-> Extension(tlvs, certificatePolicies)]]

-----------------------------------------------------------------------------
(* Checks *)

\* Mutant: any signature will do.
AnySignature(signature, message, publicKey) == publicKey # NoKey

\* An empty key makes an empty decryption, on which the index check fails.
checkSignature(signature, message, publicKey) ==
  publicKey # NoKey /\ signature # Failed /\ signature = [by |-> publicKey, over |-> message]

\* The bits below the number of unused ones are cleared.
checkKeyUsage(f, mask) ==
  f.usage # Failed /\ mask \subseteq {b \in f.usage.bits : b >= f.usage.unused}

\* Every OID of the group must be in the certificate; an unknown group is an
\* index error.  Groups count from 0.
checkOids(found, groups, oidGroup) ==
  /\ found # Failed
  /\ oidGroup + 1 \in DOMAIN groups
  /\ groups[oidGroup + 1] \subseteq found

checkExtendedKeyUsage(f, oidGroup) == checkOids(f.extended, extendedKeyUsageOIDs, oidGroup)
checkCertificatePolicies(f, oidGroup) == checkOids(f.policies, certificatePoliciesOIDs, oidGroup)

\* What every certificate must pass: signed by a trusted key, in date, and
\* neither its key nor its authority's revoked.
Vouched(f) ==
  /\ f.akid # Failed /\ f.skid # Failed /\ f.key # Failed
  /\ checkSignature(f.signature, f.message, trustedPublicKeys[f.akid])
  /\ checkDates(f) # 0
  /\ f.skid \notin revokedKeys /\ f.akid \notin revokedKeys

EndUserAccepted(f, oidGroup) ==
  /\ Vouched(f)
  /\ checkKeyUsage(f, usageBitMaskEndUser)
  /\ checkExtendedKeyUsage(f, oidGroup)
  /\ checkCertificatePolicies(f, oidGroup)

\* One certificate, one address.
Unbound(skid, addr) ==
  /\ keysByUser[addr] \in {NoKid, skid}
  /\ addressByKey[skid] \in {NoAddr, addr}

\* Mutant: the address need not be signed.
EnrolableUnsigned(f, signature, oidGroup, addr) ==
  EndUserAccepted(f, oidGroup) /\ Unbound(f.skid, addr)

Enrolable(f, signature, oidGroup, addr) ==
  /\ EndUserAccepted(f, oidGroup)
  /\ Unbound(f.skid, addr)
  /\ checkSignature(signature, addr, f.key)

-----------------------------------------------------------------------------
(* validateCertificate *)

\* An intermediate authority's key becomes trusted.  A call with checkOnly
\* changes nothing, here and below.
ValidateIntermediate(f) ==
  /\ Vouched(f)
  /\ checkKeyUsage(f, usageBitMaskIntermediate)
  /\ trustedPublicKeys' = [trustedPublicKeys EXCEPT ![f.skid] = f.key]
  /\ UNCHANGED <<now, enrolVars, revokedKeys, anchors, policyVars, allowlisting, request>>

\* Mutant: only the address's side of the binding is recorded.
BindOneWay(skid, addr) ==
  /\ keysByUser' = [keysByUser EXCEPT ![addr] = skid]
  /\ UNCHANGED addressByKey

\* Mutant: the two sides are swapped.
BindSwapped(skid, addr) ==
  /\ keysByUser' = [keysByUser EXCEPT ![addr] = addr]
  /\ addressByKey' = [addressByKey EXCEPT ![skid] = skid]

Bind(skid, addr) ==
  /\ keysByUser' = [keysByUser EXCEPT ![addr] = skid]
  /\ addressByKey' = [addressByKey EXCEPT ![skid] = addr]

\* An end user's address is bound to the certificate and allowlisted.  Anyone
\* may send the call.
Enrol(f, signature, oidGroup, addr) ==
  /\ Enrolable(f, signature, oidGroup, addr)
  /\ expires' = [expires EXCEPT ![addr] = checkDates(f)]
  /\ Bind(f.skid, addr)
  /\ users' = users \cup {addr}
  /\ UNCHANGED <<now, trustVars, policyVars, allowlisting>>

\* The signatures over addresses that there are: a key's holder signs for an
\* account of its own.
Signatures == UNION {{[by |-> k, over |-> a] : a \in HolderOf[k]} : k \in Keys}

ValidateEndUser(f, signature, oidGroup, addr) ==
  Enrol(f, signature, oidGroup, addr) /\ UNCHANGED request

-----------------------------------------------------------------------------
(* Checks and revocation *)

x509Check(user) ==
  \/ ~allowlisting
  \/ /\ keysByUser[user] \notin revokedKeys
     /\ expires[user] > now
     /\ user \in users

\* Mutant: the address keeps the key.
RevokeKeepingUser(kid) ==
  /\ revokedKeys' = revokedKeys \cup {kid}
  /\ trustedPublicKeys' = [k \in Kid |-> IF k = kid THEN NoKey ELSE trustedPublicKeys[k]]
  /\ addressByKey' = [k \in Kid |-> IF k = kid THEN NoAddr ELSE addressByKey[k]]
  /\ UNCHANGED <<now, expires, keysByUser, users, anchors, policyVars, allowlisting, request>>

\* The binding is deleted on both sides; the expiry and the allowlist entry
\* of the address stay.
Revoke(kid) ==
  LET bound == {a \in Addr : kid \in Kid /\ addressByKey[kid] = a}
  IN /\ revokedKeys' = revokedKeys \cup {kid}
     /\ trustedPublicKeys' = [k \in Kid |-> IF k = kid THEN NoKey ELSE trustedPublicKeys[k]]
     /\ keysByUser' = [a \in Addr |-> IF a \in bound THEN NoKid ELSE keysByUser[a]]
     /\ addressByKey' = [k \in Kid |-> IF k = kid THEN NoAddr ELSE addressByKey[k]]
     /\ UNCHANGED <<now, expires, users, anchors, policyVars, allowlisting, request>>

\* An address without a key may revoke the identifier zero.
revokeKeyFromUserAddress(sender, kid) ==
  /\ keysByUser[sender] = kid \/ sender = Owner
  /\ Revoke(kid)

\* The key is looked up among the trusted ones, so this serves authorities.
revokeKeyByAddressSignature(sender, kid, signature) ==
  /\ checkSignature(signature, sender, trustedPublicKeys[kid])
  /\ Revoke(kid)

-----------------------------------------------------------------------------
(* The owner's calls *)

setTrustedPublicKey(kid, key) ==
  /\ trustedPublicKeys' = [trustedPublicKeys EXCEPT ![kid] = key]
  /\ anchors' = anchors \cup {<<kid, key>>}
  /\ UNCHANGED <<now, enrolVars, revokedKeys, policyVars, allowlisting, request>>

enableAllowlisting(on) ==
  /\ allowlisting' = on
  /\ UNCHANGED <<now, enrolVars, trustVars, policyVars, request>>

setUsageBitMasks(endUser, intermediate) ==
  /\ usageBitMaskEndUser' = endUser /\ usageBitMaskIntermediate' = intermediate
  /\ UNCHANGED <<now, enrolVars, trustVars, extendedKeyUsageOIDs, certificatePoliciesOIDs,
                 allowlisting, request>>

setOids(extended, policies) ==
  /\ extendedKeyUsageOIDs' = extended /\ certificatePoliciesOIDs' = policies
  /\ UNCHANGED <<now, enrolVars, trustVars, usageBitMaskEndUser, usageBitMaskIntermediate,
                 allowlisting, request>>

setUsageBitMaskEndUser(mask) == setUsageBitMasks(mask, usageBitMaskIntermediate)
setUsageBitMaskIntermediate(mask) == setUsageBitMasks(usageBitMaskEndUser, mask)

addExtendedKeyUsage(oids) ==
  Len(extendedKeyUsageOIDs) < MaxGroups
  /\ setOids(Append(extendedKeyUsageOIDs, oids), certificatePoliciesOIDs)
addCertificatePolicies(oids) ==
  Len(certificatePoliciesOIDs) < MaxGroups
  /\ setOids(extendedKeyUsageOIDs, Append(certificatePoliciesOIDs, oids))
removeExtendedKeyUsage == setOids(<<>>, certificatePoliciesOIDs)
removeCertificatePolicies == setOids(extendedKeyUsageOIDs, <<>>)

-----------------------------------------------------------------------------
(* The environment *)

Tick ==
  /\ now < MaxTime
  /\ now' = now + 1
  /\ UNCHANGED <<enrolVars, trustVars, policyVars, allowlisting, request>>

-----------------------------------------------------------------------------
(* handle_certificate_validation: a dry run, then the enrolment, two calls *)
(* with anything in between.  The answer, x509Check, is not kept.          *)

\* What the dry run refuses is answered at once.
RequestCertification(addr, c) ==
  /\ request[addr] = <<>>
  /\ EndUserAccepted(Fields[c], 0)
  /\ request' = [request EXCEPT ![addr] = <<c>>]
  /\ UNCHANGED <<now, enrolVars, trustVars, policyVars, allowlisting>>

\* The address is signed with the private key that came with the request.  A
\* failed enrolment is logged and no more.
EnrolRequested(addr, key) ==
  LET f == Fields[Head(request[addr])]
      signature == [by |-> key, over |-> addr]
  IN /\ request[addr] # <<>>
     /\ addr \in HolderOf[key]
     /\ request' = [request EXCEPT ![addr] = <<>>]
     /\ IF Enrolable(f, signature, 0, addr)
        THEN Enrol(f, signature, 0, addr)
        ELSE UNCHANGED <<now, enrolVars, trustVars, policyVars, allowlisting>>

=============================================================================
