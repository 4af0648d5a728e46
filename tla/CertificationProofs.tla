------------------------- MODULE CertificationProofs -------------------------
(***************************************************************************)
(* Proofs about Certification for any accounts, keys, certificates and     *)
(* policies.  What holds of certificates is proved for a parser that reads *)
(* no certificate wrong (ParserIsSound, which TLC checks of the one in     *)
(* DerParser on the certificates of its instance); what holds of the two   *)
(* mappings is proved for any parser at all.                               *)
(***************************************************************************)
EXTENDS Certification, SumTheorems

-----------------------------------------------------------------------------
(* The binding of addresses and keys, whatever the parser reads *)

BindInv ==
  /\ keysByUser = [a \in Addr |-> keysByUser[a]]
  /\ addressByKey = [k \in Kid |-> addressByKey[k]]
  /\ BindingIsOneToOne

\* Enrolling an address under a key that is free or its own.
LEMMA EnrolKeepsBinding ==
  ASSUME BindInv, NEW skid, NEW addr \in Addr, Unbound(skid, addr), Bind(skid, addr),
         skid \notin revokedKeys, revokedKeys' = revokedKeys
  PROVE  BindInv'
<1>1. /\ keysByUser' = [keysByUser EXCEPT ![addr] = skid]
      /\ addressByKey' = [addressByKey EXCEPT ![skid] = addr]
  BY DEF Bind
<1>2. /\ keysByUser' = [a \in Addr |-> IF a = addr THEN skid ELSE keysByUser[a]]
      /\ addressByKey' = [k \in Kid |-> IF k = skid THEN addr ELSE addressByKey[k]]
  BY <1>1 DEF BindInv
<1>3. \A a \in Addr, k \in Kid : keysByUser'[a] = k <=> addressByKey'[k] = a
  <2> SUFFICES ASSUME NEW a \in Addr, NEW k \in Kid
               PROVE  keysByUser'[a] = k <=> addressByKey'[k] = a
    OBVIOUS
  <2>1. keysByUser[a] = k <=> addressByKey[k] = a
    BY DEF BindInv, BindingIsOneToOne
  <2>2. keysByUser[addr] \in {NoKid, skid} /\ addressByKey[skid] \in {NoAddr, addr}
    BY DEF Unbound
  <2>3. keysByUser[addr] = k <=> addressByKey[k] = addr
    BY DEF BindInv, BindingIsOneToOne
  <2> QED
    BY <1>2, <2>1, <2>2, <2>3, X509Assumption
<1>4. \A k \in revokedKeys' \cap Kid : addressByKey'[k] = NoAddr
  BY <1>2 DEF BindInv, BindingIsOneToOne
<1> QED
  BY <1>2, <1>3, <1>4 DEF BindInv, BindingIsOneToOne

LEMMA RevokeKeepsBinding ==
  ASSUME BindInv, NEW kid, Revoke(kid)
  PROVE  BindInv'
<1>1. /\ revokedKeys' = revokedKeys \cup {kid}
      /\ keysByUser' = [a \in Addr |-> IF kid \in Kid /\ addressByKey[kid] = a
                                       THEN NoKid ELSE keysByUser[a]]
      /\ addressByKey' = [k \in Kid |-> IF k = kid THEN NoAddr ELSE addressByKey[k]]
  BY DEF Revoke
<1>2. \A a \in Addr, k \in Kid : keysByUser'[a] = k <=> addressByKey'[k] = a
  <2> SUFFICES ASSUME NEW a \in Addr, NEW k \in Kid
               PROVE  keysByUser'[a] = k <=> addressByKey'[k] = a
    OBVIOUS
  <2>1. keysByUser[a] = k <=> addressByKey[k] = a
    BY DEF BindInv, BindingIsOneToOne
  <2>2. kid \in Kid => (keysByUser[a] = kid <=> addressByKey[kid] = a)
    BY DEF BindInv, BindingIsOneToOne
  <2> QED
    BY <1>1, <2>1, <2>2, X509Assumption
<1>3. \A k \in revokedKeys' \cap Kid : addressByKey'[k] = NoAddr
  BY <1>1 DEF BindInv, BindingIsOneToOne
<1> QED
  BY <1>1, <1>2, <1>3 DEF BindInv, BindingIsOneToOne

LEMMA IdleKeepsBinding ==
  ASSUME BindInv, UNCHANGED <<keysByUser, addressByKey, revokedKeys>>
  PROVE  BindInv'
  BY DEF BindInv, BindingIsOneToOne

\* What an enrolment has checked and does.
LEMMA EnrolShape ==
  ASSUME NEW f, NEW signature, NEW g, NEW addr, Enrol(f, signature, g, addr)
  PROVE  /\ Unbound(f.skid, addr) /\ Bind(f.skid, addr) /\ f.skid \notin revokedKeys
         /\ Vouched(f) /\ checkSignature(signature, addr, f.key)
         /\ expires' = [expires EXCEPT ![addr] = checkDates(f)]
         /\ users' = users \cup {addr}
         /\ UNCHANGED <<now, trustedPublicKeys, revokedKeys, anchors, policyVars, allowlisting>>
  BY DEF Enrol, Enrolable, EndUserAccepted, Vouched, trustVars

\* The steps, by what they do to enrolment and trust: Next seen through the
\* variables that the proofs are about.
Quiet == UNCHANGED <<enrolVars, trustVars>>

LEMMA NextShape ==
  ASSUME [Next]_vars
  PROVE  \/ \E pair \in Anchors : setTrustedPublicKey(pair[1], pair[2])
         \/ \E c \in Certs : ValidateIntermediate(Fields[c])
         \/ \E c \in Certs, g \in 0 .. MaxGroups, s \in Signatures, a \in Addr :
              ValidateEndUser(Fields[c], s, g, a)
         \/ \E kid \in Kid \cup {NoKid} : Revoke(kid)
         \/ \E a \in Clients, k \in Keys : EnrolRequested(a, k)
         \/ \E a \in Clients, c \in Certs : RequestCertification(a, c)
         \/ Quiet /\ UNCHANGED request
<1>1. OwnerCalls => \/ \E pair \in Anchors : setTrustedPublicKey(pair[1], pair[2])
                    \/ Quiet /\ UNCHANGED request
  BY DEF OwnerCalls, Quiet, enableAllowlisting, setUsageBitMaskEndUser,
         setUsageBitMaskIntermediate, setUsageBitMasks, addExtendedKeyUsage,
         addCertificatePolicies, removeExtendedKeyUsage, removeCertificatePolicies, setOids
<1>2. AnyonesCalls => \/ \E c \in Certs : ValidateIntermediate(Fields[c])
                      \/ \E c \in Certs, g \in 0 .. MaxGroups, s \in Signatures, a \in Addr :
                           ValidateEndUser(Fields[c], s, g, a)
                      \/ \E kid \in Kid \cup {NoKid} : Revoke(kid)
  BY DEF AnyonesCalls, revokeKeyFromUserAddress, revokeKeyByAddressSignature
<1>3. Tick => Quiet /\ UNCHANGED request
  BY DEF Tick, Quiet
<1>4. UNCHANGED vars => Quiet /\ UNCHANGED request
  BY DEF vars, Quiet
<1>5. Requests => \/ \E a \in Clients, c \in Certs : RequestCertification(a, c)
                  \/ \E a \in Clients, k \in Keys : EnrolRequested(a, k)
  BY DEF Requests
<1> QED
  BY <1>1, <1>2, <1>3, <1>4, <1>5 DEF Next

LEMMA InitBinding == Init => BindInv
  BY X509Assumption DEF Init, BindInv, BindingIsOneToOne

LEMMA NextBinding == BindInv /\ [Next]_vars => BindInv'
<1> SUFFICES ASSUME BindInv, [Next]_vars PROVE BindInv'
  OBVIOUS
<1>1. ASSUME NEW f, NEW s, NEW g, NEW a \in Addr, Enrol(f, s, g, a)
      PROVE  BindInv'
  <2>1. /\ Unbound(f.skid, a) /\ Bind(f.skid, a) /\ f.skid \notin revokedKeys
        /\ revokedKeys' = revokedKeys
    BY <1>1, EnrolShape
  <2> QED
    BY <2>1, EnrolKeepsBinding
<1>2. CASE \E pair \in Anchors : setTrustedPublicKey(pair[1], pair[2])
  BY <1>2, IdleKeepsBinding DEF setTrustedPublicKey, enrolVars
<1>3. CASE \E c \in Certs : ValidateIntermediate(Fields[c])
  BY <1>3, IdleKeepsBinding DEF ValidateIntermediate, enrolVars
<1>4. CASE \E c \in Certs, g \in 0 .. MaxGroups, s \in Signatures, a \in Addr :
             ValidateEndUser(Fields[c], s, g, a)
  BY <1>1, <1>4 DEF ValidateEndUser
<1>5. CASE \E kid \in Kid \cup {NoKid} : Revoke(kid)
  BY <1>5, RevokeKeepsBinding
<1>6. CASE \E a \in Clients, k \in Keys : EnrolRequested(a, k)
  <2>1. PICK a \in Clients, k \in Keys : EnrolRequested(a, k)
    BY <1>6
  <2>2. CASE UNCHANGED <<now, enrolVars, trustVars, policyVars, allowlisting>>
    BY <2>2, IdleKeepsBinding DEF enrolVars, trustVars
  <2>3. CASE Enrol(Fields[Head(request[a])], [by |-> k, over |-> a], 0, a)
    BY <1>1, <2>3, X509Assumption
  <2> QED
    BY <2>1, <2>2, <2>3 DEF EnrolRequested
<1>7. CASE \E a \in Clients, c \in Certs : RequestCertification(a, c)
  BY <1>7, IdleKeepsBinding DEF RequestCertification, enrolVars, trustVars
<1>8. CASE Quiet
  BY <1>8, IdleKeepsBinding DEF Quiet, enrolVars, trustVars
<1> QED
  BY <1>2, <1>3, <1>4, <1>5, <1>6, <1>7, <1>8, NextShape

LEMMA BindInvCorrect == Spec => []BindInv
  BY InitBinding, NextBinding, PTL DEF Spec

\* keysByUser and addressByKey stay each other's inverse, and a revoked key in
\* neither, for any certificates and however they are read.
THEOREM BindingCorrect == Spec => []BindingIsOneToOne
<1>1. BindInv => BindingIsOneToOne
  BY DEF BindInv
<1> QED
  BY <1>1, BindInvCorrect, PTL

-----------------------------------------------------------------------------
(* Enrolment lasts *)

LEMMA LastingStep ==
  ASSUME BindInv, [Next]_vars, NEW a \in Addr,
         expires = [x \in Addr |-> expires[x]],
         keysByUser[a] # NoKid, x509Check(a), ~ x509Check(a)',
         now' = now, allowlisting' = allowlisting
  PROVE  keysByUser[a] \in revokedKeys' \ revokedKeys /\ NoKid \in revokedKeys'
<1>0. /\ keysByUser[a] \notin revokedKeys /\ expires[a] > now /\ a \in users
      /\ keysByUser'[a] \in revokedKeys' \/ ~ (expires'[a] > now) \/ a \notin users'
  BY DEF x509Check
<1>1. ASSUME NEW f, NEW s, NEW g, NEW x \in Addr, Enrol(f, s, g, x) PROVE FALSE
  <2>1. /\ keysByUser' = [keysByUser EXCEPT ![x] = f.skid] /\ f.skid \notin revokedKeys
        /\ revokedKeys' = revokedKeys /\ users' = users \cup {x}
        /\ expires' = [expires EXCEPT ![x] = checkDates(f)]
        /\ checkDates(f) # 0
    BY <1>1, EnrolShape DEF Bind, Vouched
  <2>2. checkDates(f) > now
    BY <2>1 DEF checkDates
  <2>3. keysByUser'[a] \in {keysByUser[a], f.skid}
    BY <2>1 DEF BindInv
  <2>4. expires'[a] \in {expires[a], checkDates(f)}
    BY <2>1
  <2> QED
    BY <1>0, <2>1, <2>2, <2>3, <2>4
<1>2. ASSUME NEW kid \in Kid \cup {NoKid}, Revoke(kid)
      PROVE  keysByUser[a] \in revokedKeys' \ revokedKeys /\ NoKid \in revokedKeys'
  <2>1. /\ keysByUser'[a] = (IF kid \in Kid /\ addressByKey[kid] = a THEN NoKid ELSE keysByUser[a])
        /\ revokedKeys' = revokedKeys \cup {kid} /\ UNCHANGED <<expires, users>>
    BY <1>2 DEF Revoke
  <2>2. kid \in Kid => (keysByUser[a] = kid <=> addressByKey[kid] = a)
    BY DEF BindInv, BindingIsOneToOne
  <2> QED
    BY <1>0, <2>1, <2>2
<1>3. UNCHANGED <<keysByUser, revokedKeys, expires, users>> => FALSE
  BY <1>0
<1>4. CASE \E pair \in Anchors : setTrustedPublicKey(pair[1], pair[2])
  BY <1>3, <1>4 DEF setTrustedPublicKey, enrolVars
<1>5. CASE \E c \in Certs : ValidateIntermediate(Fields[c])
  BY <1>3, <1>5 DEF ValidateIntermediate, enrolVars
<1>6. CASE \E c \in Certs, g \in 0 .. MaxGroups, s \in Signatures, x \in Addr :
             ValidateEndUser(Fields[c], s, g, x)
  BY <1>1, <1>6 DEF ValidateEndUser
<1>7. CASE \E x \in Clients, k \in Keys : EnrolRequested(x, k)
  <2>1. PICK x \in Clients, k \in Keys : EnrolRequested(x, k)
    BY <1>7
  <2>2. CASE UNCHANGED <<now, enrolVars, trustVars, policyVars, allowlisting>>
    BY <1>3, <2>2 DEF enrolVars, trustVars
  <2>3. CASE Enrol(Fields[Head(request[x])], [by |-> k, over |-> x], 0, x)
    BY <1>1, <2>3, X509Assumption
  <2> QED
    BY <2>1, <2>2, <2>3 DEF EnrolRequested
<1>8. CASE \E x \in Clients, c \in Certs : RequestCertification(x, c)
  BY <1>3, <1>8 DEF RequestCertification, enrolVars, trustVars
<1>9. CASE Quiet
  BY <1>3, <1>9 DEF Quiet, enrolVars, trustVars
<1> QED
  BY <1>2, <1>4, <1>5, <1>6, <1>7, <1>8, <1>9, NextShape

DatesInv == expires = [x \in Addr |-> expires[x]]

LEMMA NextDates == DatesInv /\ [Next]_vars => DatesInv'
<1> SUFFICES ASSUME DatesInv, [Next]_vars PROVE DatesInv'
  OBVIOUS
<1>1. \/ expires' = expires
      \/ \E x, v : expires' = [expires EXCEPT ![x] = v]
  <2>1. ASSUME NEW f, NEW s, NEW g, NEW x, Enrol(f, s, g, x)
        PROVE  \E y, v : expires' = [expires EXCEPT ![y] = v]
    BY <2>1, EnrolShape
  <2> QED
    BY <2>1, NextShape DEF setTrustedPublicKey, ValidateIntermediate, ValidateEndUser, Revoke,
       EnrolRequested, RequestCertification, Quiet, enrolVars
<1> QED
  BY <1>1 DEF DatesInv

\* An enrolled address in good standing loses it to time or to the owner turning
\* allowlisting on: no enrolment by anybody, under any certificate, ends it, and
\* the revocation of its own key only when the identifier zero is revoked.
THEOREM EnrolmentCorrect == Spec => EnrolmentLasts
<1>1. Init => DatesInv
  BY DEF Init, DatesInv
<1>2. BindInv /\ DatesInv /\ [Next]_vars =>
        [\A a \in Addr : keysByUser[a] # NoKid /\ x509Check(a) /\ ~x509Check(a)' =>
           \/ now' # now
           \/ keysByUser[a] \in revokedKeys' \ revokedKeys /\ NoKid \in revokedKeys'
           \/ allowlisting' # allowlisting]_vars
  BY LastingStep DEF DatesInv
<1> QED
  BY <1>1, <1>2, NextDates, BindInvCorrect, PTL DEF Spec, EnrolmentLasts

-----------------------------------------------------------------------------
(* Types, for a parser that reads no certificate wrong *)

RequestInv == request \in [Clients -> {<<>>} \cup {<<c>> : c \in Certs}]

TypeInv == ParserIsSound /\ TypeOK /\ RequestInv

\* What a certificate that passes the checks names.
LEMMA VouchedFields ==
  ASSUME ParserIsSound, NEW c \in Certs, Vouched(Fields[c])
  PROVE  /\ Fields[c].akid \in Kid /\ Fields[c].skid \in Kid
         /\ Fields[c].key = c.key /\ c.key \in Keys /\ Fields[c].until \in Nat
         /\ trustedPublicKeys[Fields[c].akid] # NoKey
         /\ c.signature = [by |-> trustedPublicKeys[Fields[c].akid], over |-> c.tbs]
<1> DEFINE f == Fields[c]
<1>1. /\ f.akid \in Kid \cup {Failed} /\ f.skid \in Kid \cup {Failed}
      /\ f.key \in {c.key, Failed} /\ f.until \in Nat
      /\ f.signature \in {c.signature, Failed} /\ f.message = c.tbs
  BY DEF ParserIsSound
<1>2. /\ f.akid # Failed /\ f.skid # Failed /\ f.key # Failed
      /\ trustedPublicKeys[f.akid] # NoKey /\ f.signature # Failed
      /\ f.signature = [by |-> trustedPublicKeys[f.akid], over |-> f.message]
  BY DEF Vouched, checkSignature
<1> HIDE DEF f
<1>3. /\ f.akid \in Kid /\ f.skid \in Kid /\ f.key = c.key /\ f.signature = c.signature
  BY <1>1, <1>2
<1>4. c.key \in Keys
  BY X509Assumption
<1> QED
  BY <1>1, <1>2, <1>3, <1>4 DEF f

LEMMA RequestedIsACertificate ==
  ASSUME RequestInv, NEW a \in Clients, request[a] # <<>>
  PROVE  Head(request[a]) \in Certs
<1>1. PICK c \in Certs : request[a] = <<c>>
  BY DEF RequestInv
<1> QED
  BY <1>1

LEMMA NextRequest == RequestInv /\ [Next]_vars => RequestInv'
<1> SUFFICES ASSUME RequestInv, [Next]_vars PROVE RequestInv'
  OBVIOUS
<1>1. \/ request' = request
      \/ \E a \in Clients, c \in Certs : request' = [request EXCEPT ![a] = <<c>>]
      \/ \E a \in Clients : request' = [request EXCEPT ![a] = <<>>]
  BY NextShape DEF setTrustedPublicKey, ValidateIntermediate, ValidateEndUser, Revoke,
     EnrolRequested, RequestCertification, Quiet
<1> QED
  BY <1>1 DEF RequestInv

\* The parts of TypeOK that only enrolments and revocations touch.
EnrolType ==
  /\ expires \in [Addr -> Nat]
  /\ trustedPublicKeys \in [Kid -> Keys \cup {NoKey}]
  /\ revokedKeys \subseteq Kid \cup {NoKid}
  /\ keysByUser \in [Addr -> Kid \cup {NoKid}]
  /\ addressByKey \in [Kid -> Addr \cup {NoAddr}]
  /\ users \subseteq Addr

LEMMA NextEnrolType ==
  ParserIsSound /\ EnrolType /\ RequestInv /\ [Next]_vars => EnrolType'
<1> SUFFICES ASSUME ParserIsSound, EnrolType, RequestInv, [Next]_vars PROVE EnrolType'
  OBVIOUS
<1>1. ASSUME NEW c \in Certs, NEW s, NEW g, NEW a \in Addr, Enrol(Fields[c], s, g, a)
      PROVE  EnrolType'
  <2> DEFINE f == Fields[c]
  <2>1. /\ keysByUser' = [keysByUser EXCEPT ![a] = f.skid]
        /\ addressByKey' = [addressByKey EXCEPT ![f.skid] = a]
        /\ expires' = [expires EXCEPT ![a] = checkDates(f)]
        /\ users' = users \cup {a} /\ Vouched(f)
        /\ UNCHANGED <<trustedPublicKeys, revokedKeys>>
    BY <1>1, EnrolShape DEF Bind
  <2>2. f.skid \in Kid /\ f.until \in Nat
    BY <2>1, VouchedFields
  <2>3. checkDates(f) \in Nat
    BY <2>2 DEF checkDates
  <2> HIDE DEF f
  <2> QED
    BY <2>1, <2>2, <2>3 DEF EnrolType
<1>2. CASE \E pair \in Anchors : setTrustedPublicKey(pair[1], pair[2])
  <2>1. PICK pair \in Anchors : setTrustedPublicKey(pair[1], pair[2])
    BY <1>2
  <2>2. pair[1] \in Kid /\ pair[2] \in Keys
    BY X509Assumption
  <2> QED
    BY <2>1, <2>2 DEF setTrustedPublicKey, enrolVars, EnrolType
<1>3. CASE \E c \in Certs : ValidateIntermediate(Fields[c])
  <2>1. PICK c \in Certs : ValidateIntermediate(Fields[c])
    BY <1>3
  <2> DEFINE f == Fields[c]
  <2>2. f.skid \in Kid /\ f.key \in Keys
    BY <2>1, VouchedFields DEF ValidateIntermediate
  <2>3. /\ trustedPublicKeys' = [trustedPublicKeys EXCEPT ![f.skid] = f.key]
        /\ UNCHANGED <<expires, keysByUser, addressByKey, users, revokedKeys>>
    BY <2>1 DEF ValidateIntermediate, enrolVars
  <2> HIDE DEF f
  <2> QED
    BY <2>2, <2>3 DEF EnrolType
<1>4. CASE \E c \in Certs, g \in 0 .. MaxGroups, s \in Signatures, a \in Addr :
             ValidateEndUser(Fields[c], s, g, a)
  BY <1>1, <1>4 DEF ValidateEndUser
<1>5. CASE \E kid \in Kid \cup {NoKid} : Revoke(kid)
  BY <1>5 DEF Revoke, EnrolType
<1>6. CASE \E a \in Clients, k \in Keys : EnrolRequested(a, k)
  <2>1. PICK a \in Clients, k \in Keys : EnrolRequested(a, k)
    BY <1>6
  <2>2. CASE UNCHANGED <<now, enrolVars, trustVars, policyVars, allowlisting>>
    BY <2>2 DEF enrolVars, trustVars, EnrolType
  <2>3. CASE Enrol(Fields[Head(request[a])], [by |-> k, over |-> a], 0, a)
    <3>1. Head(request[a]) \in Certs /\ a \in Addr
      BY <2>1, RequestedIsACertificate, X509Assumption DEF EnrolRequested
    <3> QED
      BY <1>1, <2>3, <3>1
  <2> QED
    BY <2>1, <2>2, <2>3 DEF EnrolRequested
<1>7. CASE \E a \in Clients, c \in Certs : RequestCertification(a, c)
  BY <1>7 DEF RequestCertification, enrolVars, trustVars, EnrolType
<1>8. CASE Quiet
  BY <1>8 DEF Quiet, enrolVars, trustVars, EnrolType
<1> QED
  BY <1>2, <1>3, <1>4, <1>5, <1>6, <1>7, <1>8, NextShape

PolicyType ==
  /\ now \in Start .. MaxTime /\ allowlisting \in BOOLEAN
  /\ usageBitMaskEndUser \subseteq 0 .. 7 /\ usageBitMaskIntermediate \subseteq 0 .. 7
  /\ extendedKeyUsageOIDs \in Seq(OidSets) /\ certificatePoliciesOIDs \in Seq(OidSets)

LEMMA NextPolicyType == PolicyType /\ [Next]_vars => PolicyType'
<1> SUFFICES ASSUME PolicyType, [Next]_vars PROVE PolicyType'
  OBVIOUS
<1>0. UNCHANGED <<now, policyVars, allowlisting>> => PolicyType'
  BY DEF PolicyType, policyVars
<1>1. ASSUME NEW on \in BOOLEAN, enableAllowlisting(on) PROVE PolicyType'
  BY <1>1 DEF enableAllowlisting, PolicyType, policyVars
<1>2. ASSUME NEW m1, NEW m2, m1 \subseteq 0 .. 7, m2 \subseteq 0 .. 7, setUsageBitMasks(m1, m2)
      PROVE  PolicyType'
  BY <1>2 DEF setUsageBitMasks, PolicyType
<1>3. ASSUME NEW m \in Masks, setUsageBitMaskEndUser(m) \/ setUsageBitMaskIntermediate(m)
      PROVE  PolicyType'
  <2>1. m \subseteq 0 .. 7
    BY X509Assumption
  <2> QED
    BY <1>2, <1>3, <2>1
    DEF setUsageBitMaskEndUser, setUsageBitMaskIntermediate, PolicyType
<1>4. ASSUME NEW e \in Seq(OidSets), NEW p \in Seq(OidSets), setOids(e, p) PROVE PolicyType'
  BY <1>4 DEF setOids, PolicyType
<1>5. ASSUME NEW S \in OidSets, addExtendedKeyUsage(S) \/ addCertificatePolicies(S)
      PROVE  PolicyType'
  <2>1. /\ Append(extendedKeyUsageOIDs, S) \in Seq(OidSets)
        /\ Append(certificatePoliciesOIDs, S) \in Seq(OidSets)
    BY DEF PolicyType
  <2> QED
    BY <1>4, <1>5, <2>1 DEF addExtendedKeyUsage, addCertificatePolicies, PolicyType
<1>6. ASSUME removeExtendedKeyUsage \/ removeCertificatePolicies PROVE PolicyType'
  <2>1. <<>> \in Seq(OidSets)
    OBVIOUS
  <2> QED
    BY <1>4, <1>6, <2>1 DEF removeExtendedKeyUsage, removeCertificatePolicies, PolicyType
<1>7. ASSUME Tick PROVE PolicyType'
  BY <1>7, X509Assumption DEF Tick, PolicyType, policyVars
<1>8. ASSUME NEW f, NEW s, NEW g, NEW a, Enrol(f, s, g, a) PROVE PolicyType'
  BY <1>0, <1>8, EnrolShape
<1>9. OwnerCalls => PolicyType'
  <2>1. ASSUME NEW k, NEW v, setTrustedPublicKey(k, v) PROVE PolicyType'
    BY <1>0, <2>1 DEF setTrustedPublicKey
  <2> QED
    BY <1>1, <1>3, <1>5, <1>6, <2>1 DEF OwnerCalls
<1>10. AnyonesCalls => PolicyType'
  <2>1. ASSUME NEW f, ValidateIntermediate(f) PROVE PolicyType'
    BY <1>0, <2>1 DEF ValidateIntermediate
  <2>2. ASSUME NEW kid, Revoke(kid) PROVE PolicyType'
    BY <1>0, <2>2 DEF Revoke
  <2> QED
    BY <1>8, <2>1, <2>2
    DEF AnyonesCalls, ValidateEndUser, revokeKeyFromUserAddress, revokeKeyByAddressSignature
<1>11. Requests => PolicyType'
  <2>1. ASSUME NEW a, NEW c, RequestCertification(a, c) PROVE PolicyType'
    BY <1>0, <2>1 DEF RequestCertification
  <2>2. ASSUME NEW a, NEW k, EnrolRequested(a, k) PROVE PolicyType'
    BY <1>0, <1>8, <2>2 DEF EnrolRequested
  <2> QED
    BY <2>1, <2>2 DEF Requests
<1>12. UNCHANGED vars => PolicyType'
  BY <1>0 DEF vars
<1> QED
  BY <1>7, <1>9, <1>10, <1>11, <1>12 DEF Next

LEMMA TypeParts == TypeOK /\ RequestInv <=> EnrolType /\ PolicyType /\ RequestInv
<1>1. RequestInv => \A a \in Clients : request[a] = <<>> \/ Head(request[a]) \in Certs
  BY RequestedIsACertificate
<1> QED
  BY <1>1 DEF TypeOK, EnrolType, PolicyType

LEMMA InitType == Init => TypeOK /\ RequestInv
<1> SUFFICES ASSUME Init PROVE EnrolType /\ PolicyType /\ RequestInv
  BY TypeParts
<1>1. EnrolType
  BY DEF Init, EnrolType
<1>2. PolicyType
  <2>1. <<>> \in Seq(OidSets)
    OBVIOUS
  <2> QED
    BY <2>1, X509Assumption DEF Init, PolicyType
<1>3. RequestInv
  BY DEF Init, RequestInv
<1> QED
  BY <1>1, <1>2, <1>3

\* A parser that reads no certificate wrong is all that the contract's
\* mappings need to stay within their types.
THEOREM CertificationTypeCorrect == ParserIsSound /\ Spec => []TypeOK
<1>1. ParserIsSound /\ Init => TypeInv
  BY InitType DEF TypeInv
<1>2. TypeInv /\ [Next]_vars => TypeInv'
  <2> SUFFICES ASSUME TypeInv, [Next]_vars PROVE TypeInv'
    OBVIOUS
  <2>1. ParserIsSound /\ EnrolType /\ PolicyType /\ RequestInv
    BY TypeParts DEF TypeInv
  <2>2. EnrolType' /\ PolicyType' /\ RequestInv'
    BY <2>1, NextEnrolType, NextPolicyType, NextRequest
  <2>3. TypeOK'
    BY <2>2, TypeParts, PTL
  <2> QED
    BY <2>1, <2>2, <2>3 DEF TypeInv
<1>3. TypeInv => TypeOK
  BY DEF TypeInv
<1> QED
  BY <1>1, <1>2, <1>3, PTL DEF Spec

-----------------------------------------------------------------------------
(* Trust, for the same parser *)

\* Chain is a closure: it has the pairs given and what its members sign, and
\* it grows with the pairs given.
LEMMA ChainHas ==
  ASSUME NEW pairs \in SUBSET Anchors
  PROVE  pairs \subseteq Chain(pairs)
  BY DEF Chain, Pairs

LEMMA ChainCloses ==
  ASSUME NEW pairs, NEW p \in Chain(pairs), NEW c \in Certs,
         c.signature = [by |-> p[2], over |-> c.tbs]
  PROVE  <<Fields[c].skid, c.key>> \in Chain(pairs)
<1> DEFINE q == <<Fields[c].skid, c.key>>
<1>1. q \in Pairs
  BY DEF Pairs
<1>2. ASSUME NEW S \in SUBSET Pairs, pairs \cup Signed(S) \subseteq S
      PROVE  q \in S
  <2>1. p \in S
    BY <1>2 DEF Chain
  <2>2. q \in Signed(S)
    BY <2>1 DEF Signed
  <2> QED
    BY <1>2, <2>2
<1> HIDE DEF q
<1>3. q \in Chain(pairs)
  BY <1>1, <1>2 DEF Chain
<1> QED
  BY <1>3 DEF q

LEMMA ChainGrows ==
  ASSUME NEW pairs, NEW more, pairs \subseteq more
  PROVE  Chain(pairs) \subseteq Chain(more)
  BY DEF Chain

TrustInv ==
  /\ ParserIsSound
  /\ EnrolType
  /\ RequestInv
  /\ anchors \subseteq Anchors
  /\ TrustIsRooted
  /\ EnrolledHoldsTheKey

\* A certificate that passes the checks is at the end of a chain.
LEMMA VouchedIsRooted ==
  ASSUME TrustInv, NEW c \in Certs, Vouched(Fields[c])
  PROVE  <<Fields[c].skid, c.key>> \in Chain(anchors)
<1> DEFINE k == Fields[c].akid
           p == <<k, trustedPublicKeys[k]>>
<1>1. /\ k \in Kid /\ trustedPublicKeys[k] # NoKey
      /\ c.signature = [by |-> trustedPublicKeys[k], over |-> c.tbs]
  BY VouchedFields DEF TrustInv
<1>2. p \in Chain(anchors) /\ p[2] = trustedPublicKeys[k]
  BY <1>1 DEF TrustInv, TrustIsRooted
<1> HIDE DEF p, k
<1> QED
  BY <1>1, <1>2, ChainCloses

\* A step that enrols a holder of a rooted key, or ends an enrolment, or
\* neither, while the owner's pairs may grow.
LEMMA HoldersStay ==
  ASSUME EnrolledHoldsTheKey, anchors \subseteq anchors',
         \A a \in Addr : \/ keysByUser'[a] \in {keysByUser[a], NoKid}
                         \/ \E pair \in Chain(anchors') :
                              pair[1] = keysByUser'[a] /\ a \in HolderOf[pair[2]]
  PROVE  EnrolledHoldsTheKey'
<1>1. Chain(anchors) \subseteq Chain(anchors')
  BY ChainGrows
<1> SUFFICES ASSUME NEW a \in Addr, keysByUser'[a] # NoKid
             PROVE  \E pair \in Chain(anchors') :
                      pair[1] = keysByUser'[a] /\ a \in HolderOf[pair[2]]
  BY DEF EnrolledHoldsTheKey, Chain, Signed
<1>2. CASE keysByUser'[a] = keysByUser[a]
  BY <1>1, <1>2 DEF EnrolledHoldsTheKey
<1> QED
  BY <1>2

LEMMA TrustStays ==
  ASSUME TrustIsRooted, anchors \subseteq anchors',
         \A k \in Kid : \/ trustedPublicKeys'[k] \in {trustedPublicKeys[k], NoKey}
                        \/ <<k, trustedPublicKeys'[k]>> \in Chain(anchors')
  PROVE  TrustIsRooted'
<1>1. Chain(anchors) \subseteq Chain(anchors')
  BY ChainGrows
<1>2. ASSUME NEW k \in Kid, trustedPublicKeys'[k] # NoKey
      PROVE  <<k, trustedPublicKeys'[k]>> \in Chain(anchors')
  BY <1>1, <1>2 DEF TrustIsRooted
<1> QED
  BY <1>2 DEF TrustIsRooted, Chain, Signed

\* Enrolling a under a certificate keeps the invariant when the one who signed
\* for a has the private key.
LEMMA EnrolKeepsTrust ==
  ASSUME TrustInv, NEW c \in Certs, NEW s, NEW g, NEW a \in Addr,
         Enrol(Fields[c], s, g, a),
         NEW k \in Keys, s = [by |-> k, over |-> a], a \in HolderOf[k]
  PROVE  anchors' = anchors /\ TrustIsRooted' /\ EnrolledHoldsTheKey'
<1> DEFINE f == Fields[c]
<1>1. /\ Vouched(f) /\ checkSignature(s, a, f.key)
      /\ keysByUser' = [keysByUser EXCEPT ![a] = f.skid]
      /\ UNCHANGED <<trustedPublicKeys, anchors>>
  BY EnrolShape DEF Bind
<1>2. f.key = c.key /\ <<f.skid, c.key>> \in Chain(anchors)
  BY <1>1, VouchedFields, VouchedIsRooted DEF TrustInv
<1>3. a \in HolderOf[c.key]
  <2>1. s = [by |-> f.key, over |-> a]
    BY <1>1 DEF checkSignature
  <2>2. s.by = k /\ s.by = f.key
    BY <2>1
  <2> QED
    BY <1>2, <2>2
<1> HIDE DEF f
<1>4. TrustIsRooted'
  BY <1>1, TrustStays DEF TrustInv
<1>5. EnrolledHoldsTheKey'
  <2>1. \A x \in Addr : \/ keysByUser'[x] = keysByUser[x]
                        \/ x = a /\ keysByUser'[x] = f.skid
    BY <1>1 DEF TrustInv, EnrolType
  <2>2. \A x \in Addr : \/ keysByUser'[x] \in {keysByUser[x], NoKid}
                        \/ \E pair \in Chain(anchors') :
                             pair[1] = keysByUser'[x] /\ x \in HolderOf[pair[2]]
    BY <1>1, <1>2, <1>3, <2>1
  <2> QED
    BY <1>1, <2>2, HoldersStay DEF TrustInv
<1> QED
  BY <1>1, <1>4, <1>5

LEMMA NextTrust == TrustInv /\ [Next]_vars => TrustInv'
<1> SUFFICES ASSUME TrustInv, [Next]_vars PROVE TrustInv'
  OBVIOUS
<1>0. EnrolType' /\ RequestInv' /\ ParserIsSound
  BY NextEnrolType, NextRequest DEF TrustInv
<1>a. ASSUME anchors' \subseteq Anchors, TrustIsRooted', EnrolledHoldsTheKey' PROVE TrustInv'
  BY <1>0, <1>a DEF TrustInv
<1>b. anchors \subseteq Anchors /\ TrustIsRooted /\ EnrolledHoldsTheKey /\ EnrolType
  BY DEF TrustInv
<1>c. ASSUME UNCHANGED <<trustedPublicKeys, keysByUser, anchors>> PROVE TrustInv'
  BY <1>a, <1>b, <1>c, TrustStays, HoldersStay
<1>2. CASE \E pair \in Anchors : setTrustedPublicKey(pair[1], pair[2])
  <2>1. PICK pair \in Anchors : setTrustedPublicKey(pair[1], pair[2])
    BY <1>2
  <2>2. /\ trustedPublicKeys' = [trustedPublicKeys EXCEPT ![pair[1]] = pair[2]]
        /\ anchors' = anchors \cup {pair} /\ keysByUser' = keysByUser
        /\ pair = <<pair[1], pair[2]>>
    <3>1. pair = <<pair[1], pair[2]>>
      BY X509Assumption
    <3> QED
      BY <2>1, <3>1 DEF setTrustedPublicKey, enrolVars
  <2>3. anchors' \in SUBSET Anchors /\ anchors \subseteq anchors'
    BY <1>b, <2>2
  <2>4. pair \in Chain(anchors')
    BY <2>2, <2>3, ChainHas
  <2>5. \A k \in Kid : \/ trustedPublicKeys'[k] \in {trustedPublicKeys[k], NoKey}
                       \/ <<k, trustedPublicKeys'[k]>> \in Chain(anchors')
    BY <1>b, <2>2, <2>4 DEF EnrolType
  <2>6. TrustIsRooted'
    BY <1>b, <2>3, <2>5, TrustStays
  <2>7. EnrolledHoldsTheKey'
    BY <1>b, <2>2, <2>3, HoldersStay
  <2> QED
    BY <1>a, <2>3, <2>6, <2>7
<1>3. CASE \E c \in Certs : ValidateIntermediate(Fields[c])
  <2>1. PICK c \in Certs : ValidateIntermediate(Fields[c])
    BY <1>3
  <2> DEFINE f == Fields[c]
  <2>2. /\ Vouched(f) /\ trustedPublicKeys' = [trustedPublicKeys EXCEPT ![f.skid] = f.key]
        /\ UNCHANGED <<keysByUser, anchors>>
    BY <2>1 DEF ValidateIntermediate, enrolVars
  <2>3. f.key = c.key /\ <<f.skid, c.key>> \in Chain(anchors)
    BY <2>2, VouchedFields, VouchedIsRooted DEF TrustInv
  <2> HIDE DEF f
  <2>4. \A k \in Kid : \/ trustedPublicKeys'[k] \in {trustedPublicKeys[k], NoKey}
                       \/ <<k, trustedPublicKeys'[k]>> \in Chain(anchors')
    BY <1>b, <2>2, <2>3 DEF EnrolType
  <2>5. TrustIsRooted'
    BY <1>b, <2>2, <2>4, TrustStays
  <2>6. EnrolledHoldsTheKey'
    BY <1>b, <2>2, HoldersStay
  <2> QED
    BY <1>a, <1>b, <2>2, <2>5, <2>6
<1>4. CASE \E c \in Certs, g \in 0 .. MaxGroups, s \in Signatures, a \in Addr :
             ValidateEndUser(Fields[c], s, g, a)
  <2>1. PICK c \in Certs, g \in 0 .. MaxGroups, s \in Signatures, a \in Addr :
               Enrol(Fields[c], s, g, a)
    BY <1>4 DEF ValidateEndUser
  <2>a. PICK k \in Keys : s \in {[by |-> k, over |-> y] : y \in HolderOf[k]}
    BY DEF Signatures
  <2>2. PICK x \in HolderOf[k] : s = [by |-> k, over |-> x]
    BY <2>a
  <2>3. s = [by |-> Fields[c].key, over |-> a]
    BY <2>1, EnrolShape DEF checkSignature
  <2>4. x = a
    <3>1. s.over = x /\ s.over = a
      BY <2>2, <2>3
    <3> QED
      BY <3>1
  <2>5. anchors' = anchors /\ TrustIsRooted' /\ EnrolledHoldsTheKey'
    BY <2>1, <2>2, <2>4, EnrolKeepsTrust
  <2> QED
    BY <1>a, <1>b, <2>5
<1>5. CASE \E kid \in Kid \cup {NoKid} : Revoke(kid)
  <2>1. /\ anchors' = anchors
        /\ \A k \in Kid : trustedPublicKeys'[k] \in {trustedPublicKeys[k], NoKey}
        /\ \A a \in Addr : keysByUser'[a] \in {keysByUser[a], NoKid}
    BY <1>5 DEF Revoke
  <2> QED
    BY <1>a, <1>b, <2>1, TrustStays, HoldersStay
<1>6. CASE \E a \in Clients, k \in Keys : EnrolRequested(a, k)
  <2>1. PICK a \in Clients, k \in Keys : EnrolRequested(a, k)
    BY <1>6
  <2>2. CASE UNCHANGED <<now, enrolVars, trustVars, policyVars, allowlisting>>
    BY <1>c, <2>2 DEF enrolVars, trustVars
  <2>3. CASE Enrol(Fields[Head(request[a])], [by |-> k, over |-> a], 0, a)
    <3>1. Head(request[a]) \in Certs /\ a \in Addr /\ a \in HolderOf[k]
      BY <2>1, RequestedIsACertificate, X509Assumption DEF EnrolRequested, TrustInv
    <3>2. anchors' = anchors /\ TrustIsRooted' /\ EnrolledHoldsTheKey'
      BY <2>3, <3>1, EnrolKeepsTrust
    <3> QED
      BY <1>a, <1>b, <3>2
  <2> QED
    BY <2>1, <2>2, <2>3 DEF EnrolRequested
<1>7. CASE \E a \in Clients, c \in Certs : RequestCertification(a, c)
  BY <1>c, <1>7 DEF RequestCertification, enrolVars, trustVars
<1>8. CASE Quiet
  BY <1>c, <1>8 DEF Quiet, enrolVars, trustVars
<1> QED
  BY <1>2, <1>3, <1>4, <1>5, <1>6, <1>7, <1>8, NextShape

LEMMA TrustInvCorrect == ParserIsSound /\ Spec => []TrustInv
<1>1. ParserIsSound /\ Init => TrustInv
  BY InitType, TypeParts DEF TrustInv, Init, TrustIsRooted, EnrolledHoldsTheKey
<1> QED
  BY <1>1, NextTrust, PTL DEF Spec

\* Every key the contract trusts is at the end of a chain of signatures from a
\* key that the owner set, for any certificates and any order of calls.
THEOREM TrustCorrect == ParserIsSound /\ Spec => []TrustIsRooted
<1>1. TrustInv => TrustIsRooted
  BY DEF TrustInv
<1> QED
  BY <1>1, TrustInvCorrect, PTL

\* Every enrolled address belongs to the holder of the private key of such a
\* certificate, whoever sent the enrolment.
THEOREM HolderCorrect == ParserIsSound /\ Spec => []EnrolledHoldsTheKey
<1>1. TrustInv => EnrolledHoldsTheKey
  BY DEF TrustInv
<1> QED
  BY <1>1, TrustInvCorrect, PTL

-----------------------------------------------------------------------------
(* The calendar: what DaysFromDate computes *)

YearDays(y) == IF y % 4 = 0 THEN 366 ELSE 365

YearsBefore(y) == SumFunction([z \in 0 .. y - 1 |-> YearDays(z)])

\* The days of the years before one, counting a leap day in every fourth.
LEMMA YearsInDays == \A y \in Nat : YearsBefore(y) = 365 * y + (y + 3) \div 4
<1> DEFINE T == {y \in Nat : YearsBefore(y) = 365 * y + (y + 3) \div 4}
<1>1. 0 \in T
  <2>1. 0 .. 0 - 1 = {}
    OBVIOUS
  <2> QED
    BY <2>1, SumEmpty DEF YearsBefore, SumFunction
<1>2. ASSUME NEW y \in Nat, y \in T PROVE y + 1 \in T
  <2> DEFINE f == [z \in 0 .. y - 1 |-> YearDays(z)]
             g == [z \in 0 .. (y - 1) + 1 |-> YearDays(z)]
  <2>1. \A z \in Int : YearDays(z) \in Int
    BY DEF YearDays
  <2>2. /\ DOMAIN f = 0 .. y - 1 /\ DOMAIN g = 0 .. (y - 1) + 1
        /\ \A i \in 0 .. y - 1 : f[i] \in Int /\ g[i] = f[i]
        /\ g[(y - 1) + 1] = YearDays(y) /\ g[(y - 1) + 1] \in Int
    BY <2>1
  <2>3. YearsBefore(y) = SumFunction(f) /\ YearsBefore(y + 1) = SumFunction(g)
    <3>1. (y + 1) - 1 = (y - 1) + 1
      OBVIOUS
    <3> QED
      BY <3>1 DEF YearsBefore
  <2> HIDE DEF f, g
  <2>4. SumFunction(g) = SumFunction(f) + g[(y - 1) + 1]
    BY <2>2, SumExtend
  <2>5. YearsBefore(y + 1) = 365 * y + (y + 3) \div 4 + YearDays(y)
    <3>1. SumFunction(f) = 365 * y + (y + 3) \div 4
      BY <1>2, <2>3
    <3> QED
      BY <2>2, <2>3, <2>4, <3>1
  <2>6. (y + 3) \div 4 + YearDays(y) = 365 + (y + 4) \div 4
    BY DEF YearDays
  <2>7. (y + 3) \div 4 \in Int /\ (y + 4) \div 4 \in Int /\ YearDays(y) \in Int
    BY <2>1
  <2>8. YearsBefore(y + 1) = 365 * (y + 1) + ((y + 1) + 3) \div 4
    BY <2>5, <2>6, <2>7
  <2> QED
    BY <2>8
<1> HIDE DEF T
<1>3. Nat \subseteq T
  BY <1>1, <1>2, Induction
<1> QED
  BY <1>3 DEF T

MonthsBefore(y, m) == SumFunction([n \in 1 .. m - 1 |-> Months(y)[n]])

LEMMA MonthsAreDays ==
  ASSUME NEW y \in Nat
  PROVE  /\ \A m \in 1 .. 12 : Months(y)[m] \in Nat
         /\ Months(y)[1] = 31 /\ Months(y)[2] = (IF y % 4 = 0 THEN 29 ELSE 28)
         /\ Months(y)[3] = 31 /\ Months(y)[4] = 30 /\ Months(y)[5] = 31
         /\ Months(y)[6] = 30 /\ Months(y)[7] = 31 /\ Months(y)[8] = 31
         /\ Months(y)[9] = 30 /\ Months(y)[10] = 31 /\ Months(y)[11] = 30
         /\ Months(y)[12] = 31
  BY DEF Months

LEMMA MonthsStep ==
  ASSUME NEW y \in Nat, NEW m \in 1 .. 11
  PROVE  MonthsBefore(y, m + 1) = MonthsBefore(y, m) + Months(y)[m]
<1> DEFINE f == [n \in 1 .. m - 1 |-> Months(y)[n]]
           g == [n \in 1 .. (m - 1) + 1 |-> Months(y)[n]]
<1>0. (m - 1) + 1 = m /\ \A i \in 1 .. m : Months(y)[i] \in Int
  BY MonthsAreDays
<1>1. /\ DOMAIN f = 1 .. m - 1 /\ DOMAIN g = 1 .. (m - 1) + 1
      /\ \A i \in 1 .. m - 1 : f[i] \in Int /\ g[i] = f[i]
      /\ g[(m - 1) + 1] = Months(y)[m] /\ g[(m - 1) + 1] \in Int
  BY <1>0
<1>2. (m + 1) - 1 = (m - 1) + 1
  OBVIOUS
<1>3. MonthsBefore(y, m) = SumFunction(f) /\ MonthsBefore(y, m + 1) = SumFunction(g)
  BY <1>2 DEF MonthsBefore
<1> HIDE DEF f, g
<1>4. SumFunction(g) = SumFunction(f) + g[(m - 1) + 1]
  BY <1>1, SumExtend
<1> QED
  BY <1>1, <1>3, <1>4

\* The days of the months before one.
LEMMA MonthsInDays ==
  ASSUME NEW y \in Nat
  PROVE  LET leap == IF y % 4 = 0 THEN 1 ELSE 0
         IN /\ MonthsBefore(y, 1) = 0 /\ MonthsBefore(y, 2) = 31
            /\ MonthsBefore(y, 3) = 59 + leap /\ MonthsBefore(y, 4) = 90 + leap
            /\ MonthsBefore(y, 5) = 120 + leap /\ MonthsBefore(y, 6) = 151 + leap
            /\ MonthsBefore(y, 7) = 181 + leap /\ MonthsBefore(y, 8) = 212 + leap
            /\ MonthsBefore(y, 9) = 243 + leap /\ MonthsBefore(y, 10) = 273 + leap
            /\ MonthsBefore(y, 11) = 304 + leap /\ MonthsBefore(y, 12) = 334 + leap
<1>1. MonthsBefore(y, 1) = 0
  <2>1. 1 .. 1 - 1 = {}
    OBVIOUS
  <2> QED
    BY <2>1, SumEmpty DEF MonthsBefore, SumFunction
<1> DEFINE step(m) == MonthsBefore(y, m + 1) = MonthsBefore(y, m) + Months(y)[m]
<1>2. /\ step(1) /\ step(2) /\ step(3) /\ step(4) /\ step(5) /\ step(6)
      /\ step(7) /\ step(8) /\ step(9) /\ step(10) /\ step(11)
  BY MonthsStep
<1>3. /\ MonthsBefore(y, 2) = MonthsBefore(y, 1) + Months(y)[1]
      /\ MonthsBefore(y, 3) = MonthsBefore(y, 2) + Months(y)[2]
      /\ MonthsBefore(y, 4) = MonthsBefore(y, 3) + Months(y)[3]
      /\ MonthsBefore(y, 5) = MonthsBefore(y, 4) + Months(y)[4]
      /\ MonthsBefore(y, 6) = MonthsBefore(y, 5) + Months(y)[5]
      /\ MonthsBefore(y, 7) = MonthsBefore(y, 6) + Months(y)[6]
      /\ MonthsBefore(y, 8) = MonthsBefore(y, 7) + Months(y)[7]
      /\ MonthsBefore(y, 9) = MonthsBefore(y, 8) + Months(y)[8]
      /\ MonthsBefore(y, 10) = MonthsBefore(y, 9) + Months(y)[9]
      /\ MonthsBefore(y, 11) = MonthsBefore(y, 10) + Months(y)[10]
      /\ MonthsBefore(y, 12) = MonthsBefore(y, 11) + Months(y)[11]
  BY <1>2
<1> QED
  BY <1>1, <1>3, MonthsAreDays

\* DaysFromDate counts the days of the calendar: its divisions, which drop the
\* sign's side of January and February and of the centuries, come out right
\* for every day of the years that a UTCTime names.
LEMMA DaysAreTheCalendars ==
  ASSUME NEW date, IsDate(date)
  PROVE  DaysFromDate(date[1] + 2000, date[2], date[3]) = CalendarDay(date)
<1> DEFINE y == date[1]
           m == date[2]
           d == date[3]
<1>1. y \in 0 .. 99 /\ m \in 1 .. 12 /\ d \in Int
  BY MonthsAreDays DEF IsDate
<1>2. CalendarDay(date) = 10957 + YearsBefore(y) + MonthsBefore(y, m) + d - 1
  BY DEF CalendarDay, YearsBefore, YearDays, MonthsBefore
<1> HIDE DEF y, m, d
<1>3. YearsBefore(y) = 365 * y + (y + 3) \div 4
  BY <1>1, YearsInDays
<1> DEFINE early == IF m <= 2 THEN -1 ELSE 0
<1>4. Quotient(m - 14, 12) = early
  <2>1. ~ (m - 14 >= 0) /\ -(m - 14) \in 2 .. 13
    BY <1>1
  <2>2. (-(m - 14)) \div 12 = IF m <= 2 THEN 1 ELSE 0
    BY <1>1
  <2> QED
    BY <2>1, <2>2 DEF Quotient
<1> DEFINE a == y + 6800 + early
<1>5. a \in Int /\ Quotient(1461 * a, 4) = 365 * a + a \div 4
  <2>1. a \in Nat
    BY <1>1
  <2> HIDE DEF a
  <2>2. 1461 * a >= 0 /\ (1461 * a) \div 4 = 365 * a + a \div 4
    BY <2>1
  <2> QED
    BY <2>1, <2>2 DEF Quotient
<1>6. Quotient(3 * Quotient(y + 6900 + early, 100), 4) = 51
  <2> DEFINE c == y + 6900 + early
  <2>1. c \in 6899 .. 6999
    BY <1>1
  <2> HIDE DEF c
  <2>2. Quotient(c, 100) \in {68, 69}
    BY <2>1 DEF Quotient
  <2>3. Quotient(3 * 68, 4) = 51 /\ Quotient(3 * 69, 4) = 51
    BY DEF Quotient
  <2> QED
    BY <2>2, <2>3 DEF c
<1> DEFINE days == Quotient(367 * (m - 2 - early * 12), 12)
<1>7. DaysFromDate(y + 2000, m, d) = d - 32075 + Quotient(1461 * a, 4) + days - 51 - 2440588
  <2>1. /\ (y + 2000) + 4800 + early = a
        /\ (y + 2000) + 4900 + early = y + 6900 + early
    BY <1>1
  <2> HIDE DEF a, early, days
  <2> QED
    BY <1>4, <1>6, <2>1 DEF DaysFromDate, OFFSET19700101, days
<1>8. days = CASE m = 1 -> 336 [] m = 2 -> 367 [] m = 3 -> 30 [] m = 4 -> 61
               [] m = 5 -> 91 [] m = 6 -> 122 [] m = 7 -> 152 [] m = 8 -> 183
               [] m = 9 -> 214 [] m = 10 -> 244 [] m = 11 -> 275 [] m = 12 -> 305
  BY <1>1 DEF Quotient
<1> HIDE DEF days
<1>9. days + 365 * a + a \div 4 = 2483670 + 365 * y + (y + 3) \div 4 + MonthsBefore(y, m)
  <2> DEFINE leap == IF y % 4 = 0 THEN 1 ELSE 0
             q == y \div 4
  <2>1. /\ (y + 6800) \div 4 = 1700 + q /\ (y + 6799) \div 4 = 1700 + q - leap
        /\ (y + 3) \div 4 = q + 1 - leap /\ q \in Int
    BY <1>1
  <2>2. /\ MonthsBefore(y, 1) = 0 /\ MonthsBefore(y, 2) = 31
        /\ MonthsBefore(y, 3) = 59 + leap /\ MonthsBefore(y, 4) = 90 + leap
        /\ MonthsBefore(y, 5) = 120 + leap /\ MonthsBefore(y, 6) = 151 + leap
        /\ MonthsBefore(y, 7) = 181 + leap /\ MonthsBefore(y, 8) = 212 + leap
        /\ MonthsBefore(y, 9) = 243 + leap /\ MonthsBefore(y, 10) = 273 + leap
        /\ MonthsBefore(y, 11) = 304 + leap /\ MonthsBefore(y, 12) = 334 + leap
    BY <1>1, MonthsInDays
  <2>3. leap \in Int /\ y \in Int
    BY <1>1
  <2> HIDE DEF leap, q
  <2>4. CASE m \in {1, 2}
    <3>1. a = y + 6799
      BY <2>4, <2>3
    <3> HIDE DEF a
    <3> QED
      BY <1>8, <2>1, <2>2, <2>3, <2>4, <3>1
  <2>5. CASE m \in 3 .. 12
    <3>1. a = y + 6800
      BY <2>5, <2>3
    <3> HIDE DEF a
    <3> QED
      BY <1>8, <2>1, <2>2, <2>3, <2>5, <3>1
  <2> QED
    BY <1>1, <2>4, <2>5
<1>10. days \in Int /\ a \div 4 \in Int /\ (y + 3) \div 4 \in Int /\ MonthsBefore(y, m) \in Int
  <2>1. days \in Int
    BY <1>1, <1>8
  <2>2. MonthsBefore(y, m) \in Int
    BY <1>1, MonthsInDays
  <2> QED
    BY <1>1, <1>5, <2>1, <2>2
<1> HIDE DEF a, early
<1>11. DaysFromDate(y + 2000, m, d)
         = 10957 + (365 * y + (y + 3) \div 4) + MonthsBefore(y, m) + d - 1
  BY <1>1, <1>5, <1>7, <1>9, <1>10
<1> QED
  BY <1>2, <1>3, <1>11 DEF y, m, d

ExpiryInv ==
  /\ ParserIsSound
  /\ CalendarDates
  /\ EnrolType
  /\ RequestInv
  /\ \A a \in Addr : keysByUser[a] # NoKid =>
       \E c \in Certs : /\ Fields[c].skid = keysByUser[a]
                        /\ expires[a] = timestampFromDate(c.notAfter)

\* What an enrolment records is the end of its certificate.
LEMMA CheckedUntil ==
  ASSUME ParserIsSound, NEW c \in Certs, checkDates(Fields[c]) # 0
  PROVE  checkDates(Fields[c]) = timestampFromDate(c.notAfter)
<1> DEFINE f == Fields[c]
<1>1. f.until = IF f.dates = Failed THEN 0 ELSE timestampFromDate(f.dates[2])
  BY DEF Fields
<1>2. f.dates \in {<<c.notBefore, c.notAfter>>, Failed}
  BY DEF ParserIsSound
<1> HIDE DEF f
<1>3. f.dates # Failed /\ checkDates(f) = f.until
  <2>1. checkDates(f) # 0
    BY DEF f
  <2> QED
    BY <2>1 DEF checkDates
<1> QED
  BY <1>1, <1>2, <1>3 DEF f

LEMMA NextExpiry == ExpiryInv /\ [Next]_vars => ExpiryInv'
<1> SUFFICES ASSUME ExpiryInv, [Next]_vars PROVE ExpiryInv'
  OBVIOUS
<1>0. EnrolType' /\ RequestInv' /\ ParserIsSound /\ CalendarDates
  BY NextEnrolType, NextRequest DEF ExpiryInv
<1>1. ASSUME \A a \in Addr : \/ keysByUser'[a] = NoKid
                             \/ UNCHANGED <<keysByUser[a], expires[a]>>
                             \/ \E c \in Certs : /\ Fields[c].skid = keysByUser'[a]
                                                 /\ expires'[a] = timestampFromDate(c.notAfter)
      PROVE  ExpiryInv'
  <2>1. ASSUME NEW a \in Addr, keysByUser'[a] # NoKid
        PROVE  \E c \in Certs : /\ Fields[c].skid = keysByUser'[a]
                                /\ expires'[a] = timestampFromDate(c.notAfter)
    BY <1>1, <2>1 DEF ExpiryInv
  <2> QED
    BY <1>0, <2>1 DEF ExpiryInv
<1>2. ASSUME UNCHANGED <<keysByUser, expires>> PROVE ExpiryInv'
  BY <1>1, <1>2
<1>3. ASSUME NEW c \in Certs, NEW s, NEW g, NEW a \in Addr, Enrol(Fields[c], s, g, a)
      PROVE  ExpiryInv'
  <2>1. /\ keysByUser' = [keysByUser EXCEPT ![a] = Fields[c].skid]
        /\ expires' = [expires EXCEPT ![a] = checkDates(Fields[c])]
        /\ checkDates(Fields[c]) # 0
    BY <1>3, EnrolShape DEF Bind, Vouched
  <2>2. checkDates(Fields[c]) = timestampFromDate(c.notAfter)
    BY <2>1, CheckedUntil DEF ExpiryInv
  <2>3. \A x \in Addr : \/ UNCHANGED <<keysByUser[x], expires[x]>>
                        \/ /\ keysByUser'[x] = Fields[c].skid
                           /\ expires'[x] = checkDates(Fields[c])
    BY <2>1 DEF ExpiryInv, EnrolType
  <2> QED
    BY <1>1, <2>2, <2>3
<1>4. CASE \E pair \in Anchors : setTrustedPublicKey(pair[1], pair[2])
  BY <1>2, <1>4 DEF setTrustedPublicKey, enrolVars
<1>5. CASE \E c \in Certs : ValidateIntermediate(Fields[c])
  BY <1>2, <1>5 DEF ValidateIntermediate, enrolVars
<1>6. CASE \E c \in Certs, g \in 0 .. MaxGroups, s \in Signatures, a \in Addr :
             ValidateEndUser(Fields[c], s, g, a)
  BY <1>3, <1>6 DEF ValidateEndUser
<1>7. CASE \E kid \in Kid \cup {NoKid} : Revoke(kid)
  <2>1. expires' = expires /\ \A a \in Addr : keysByUser'[a] \in {keysByUser[a], NoKid}
    BY <1>7 DEF Revoke
  <2> QED
    BY <1>1, <2>1
<1>8. CASE \E a \in Clients, k \in Keys : EnrolRequested(a, k)
  <2>1. PICK a \in Clients, k \in Keys : EnrolRequested(a, k)
    BY <1>8
  <2>2. CASE UNCHANGED <<now, enrolVars, trustVars, policyVars, allowlisting>>
    BY <1>2, <2>2 DEF enrolVars
  <2>3. CASE Enrol(Fields[Head(request[a])], [by |-> k, over |-> a], 0, a)
    <3>1. Head(request[a]) \in Certs /\ a \in Addr
      BY <2>1, RequestedIsACertificate, X509Assumption DEF EnrolRequested, ExpiryInv
    <3> QED
      BY <1>3, <2>3, <3>1
  <2> QED
    BY <2>1, <2>2, <2>3 DEF EnrolRequested
<1>9. CASE \E a \in Clients, c \in Certs : RequestCertification(a, c)
  BY <1>2, <1>9 DEF RequestCertification, enrolVars
<1>10. CASE Quiet
  BY <1>2, <1>10 DEF Quiet, enrolVars
<1> QED
  BY <1>4, <1>5, <1>6, <1>7, <1>8, <1>9, <1>10, NextShape

\* An enrolled address keeps its standing to the start of the day, by the
\* calendar, on which a certificate for its key ends: DaysFromDate is the
\* calendar's count for every day from 2000 to 2099, an enrolment or a renewal
\* records the date of its own certificate, and nothing else writes one.
THEOREM ExpiryCorrect == ParserIsSound /\ CalendarDates /\ Spec => []ExpiryIsTheCalendarDay
<1>1. ParserIsSound /\ CalendarDates /\ Init => ExpiryInv
  BY InitType, TypeParts DEF ExpiryInv, Init
<1>2. ExpiryInv => ExpiryIsTheCalendarDay
  <2> SUFFICES ASSUME ExpiryInv, NEW a \in Addr, keysByUser[a] # NoKid
               PROVE  \E c \in Certs : /\ Fields[c].skid = keysByUser[a]
                                       /\ expires[a] = CalendarDay(c.notAfter) * SECONDS_PER_DAY
    BY DEF ExpiryIsTheCalendarDay
  <2>1. PICK c \in Certs : /\ Fields[c].skid = keysByUser[a]
                           /\ expires[a] = timestampFromDate(c.notAfter)
    BY DEF ExpiryInv
  <2>2. timestampFromDate(c.notAfter) = CalendarDay(c.notAfter) * SECONDS_PER_DAY
    BY DaysAreTheCalendars DEF ExpiryInv, CalendarDates, timestampFromDate
  <2> QED
    BY <2>1, <2>2
<1> QED
  BY <1>1, <1>2, NextExpiry, PTL DEF Spec

=============================================================================
