------------------------------- MODULE MCX509 -------------------------------
(***************************************************************************)
(* A root, an intermediate authority whose certificate may also serve an   *)
(* end user, a user with a certificate and its renewal, and a certificate  *)
(* that names the root and is signed by its own key.                       *)
(***************************************************************************)
EXTENDS Certification

CONSTANTS a1, a2, root, inter, user, rogue, serverAuth

Certificate(akid, skid, by, bits, until) ==
  LET tbs == <<skid, until>>
      x(oid, critical, content) == [oid |-> oid, critical |-> critical, content |-> content]
  IN [tbs |-> tbs, notBefore |-> <<24, 2, 28>>, notAfter |-> until, key |-> skid,
      signature |-> [by |-> by, over |-> tbs],
      extensions |-> <<x(keyUsage, FALSE, [unused |-> 1, bits |-> bits]),
                       x(subjectKeyIdentifier, FALSE, skid),
                       x(authorityKeyIdentifier, FALSE, akid),
                       x(extKeyUsage, FALSE, {serverAuth}),
                       x(certificatePolicies, FALSE, {serverAuth})>>]

LeapDay == <<24, 2, 29>>
March1 == <<24, 3, 1>>

SmallCerts ==
  {Certificate(root, inter, root, {1, 2, 7}, March1),
   Certificate(inter, user, inter, {7}, LeapDay),
   Certificate(inter, user, inter, {7}, March1),
   Certificate(root, rogue, rogue, {1, 2, 7}, March1)}

SmallHolders ==
  [k \in Keys |-> CASE k = user -> {a1, a2} [] k = root -> {} [] OTHER -> {a1}]

RootOnly == {<<root, root>>}
SmallMasks == {{7}}
SmallOids == {{serverAuth}}

ASSUME CalendarDates

=============================================================================
