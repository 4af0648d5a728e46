----------------------------- MODULE DerParser -----------------------------
(***************************************************************************)
(* DERParser.sol and the readers of X509.sol: how a certificate's fields   *)
(* are found in the flat list of TLVs that walkDerTree makes of its bytes. *)
(*                                                                         *)
(* The bytes are kept as far as the walk depends on them: an element is a  *)
(* header with its tag, whether it is constructed and the length of its    *)
(* content; a primitive element has a value instead of content bytes.      *)
(***************************************************************************)
EXTENDS Integers, Sequences, SequencesExt, FiniteSetsExt

MAX_DEPTH == 5
HEADER == 2      \* bytes of a short header

CONSTANTS
  Failed,   \* the outcome of a require or an index check that reverts the call
  keyUsage, extKeyUsage, certificatePolicies,       \* the bytes of the extensions' OIDs
  subjectKeyIdentifier, authorityKeyIdentifier

-----------------------------------------------------------------------------
(* The walk *)

\* Mutant: at most one level ends with an element.
InnermostEnd(changes, pointer, depth) ==
  IF depth > 0 /\ changes[depth - 1] = pointer THEN 1 ELSE 0

\* How many constructed elements end where the pointer is: every end that was
\* noted is compared, the ones of levels left long ago included.
LevelsEnded(changes, pointer, depth) ==
  Cardinality({i \in 0 .. MAX_DEPTH - 1 : changes[i] = pointer})

\* One turn of the loop: the pointer enters a constructed element and passes
\* a primitive one.
getNextTlv(walk, e) ==
  LET pointer == walk.pointer + HEADER + (IF e.constructed THEN 0 ELSE e.length)
      changes == IF e.constructed
                 THEN [walk.changes EXCEPT ![walk.depth] = pointer + e.length]
                 ELSE walk.changes
      depth == IF e.constructed THEN walk.depth + 1 ELSE walk.depth
  IN IF walk.failed \/ (e.constructed /\ walk.depth >= MAX_DEPTH)
     THEN [walk EXCEPT !.failed = TRUE]
     ELSE [failed  |-> FALSE,
           pointer |-> pointer,
           changes |-> changes,
           depth   |-> depth - LevelsEnded(changes, pointer, depth),
           tlvs    |-> Append(walk.tlvs, [tag |-> e.tag, value |-> e.value, depth |-> walk.depth])]

StartOfWalk == [failed |-> FALSE, pointer |-> 0, changes |-> [i \in 0 .. MAX_DEPTH - 1 |-> 0],
                depth |-> 0, tlvs |-> <<>>]

walkDerTree(elements) == FoldLeft(getNextTlv, StartOfWalk, elements)

computeNumberOfTlvs(elements) == Len(walkDerTree(elements).tlvs)

\* The TLVs in an array of the length that the caller says: a longer array
\* ends in empty entries, a shorter one is an index error.
Empty == [tag |-> "none", value |-> Failed, depth |-> 0]

parseDER(elements, tlvLength) ==
  LET walk == walkDerTree(elements)
  IN IF walk.failed \/ Len(walk.tlvs) > tlvLength THEN <<>>
     ELSE walk.tlvs \o [i \in 1 .. tlvLength - Len(walk.tlvs) |-> Empty]

-----------------------------------------------------------------------------
(* The readers *)

At(tlvs, i) == IF i \in DOMAIN tlvs THEN tlvs[i] ELSE Empty

\* The place of the n-th SEQUENCE at depth 2.
SequenceAtDepth2(tlvs, n) ==
  LET places == {i \in DOMAIN tlvs : tlvs[i].tag = "SEQUENCE" /\ tlvs[i].depth = 2}
  IN Min({Len(tlvs) + 1} \cup {i \in places : Cardinality({j \in places : j <= i}) = n})

\* Mutant: an extension's criticality flag is taken for its content.
ContentIgnoringFlag(tlvs, i) == At(tlvs, i + 1).value

\* What follows an extension's OID; a criticality flag is passed over.
ContentAfterFlag(tlvs, i) ==
  IF At(tlvs, i + 1).tag = "BOOLEAN" THEN At(tlvs, i + 2).value ELSE At(tlvs, i + 1).value

\* The first element at depth 5 with the bytes of an extension's OID, whatever
\* its tag: a name's attribute lies at that depth as well, ahead of the extensions.
PlaceOf(tlvs, oid) ==
  Min({Len(tlvs) + 1} \cup {i \in DOMAIN tlvs : tlvs[i].depth = 5 /\ tlvs[i].value = oid})

getSignature(tlvs, maxId) ==
  LET tlv == At(tlvs, maxId)
  IN IF tlv.depth = 1 /\ tlv.tag = "BIT STRING" THEN tlv.value ELSE Failed

getMessage(tlvs) ==
  LET tlv == At(tlvs, 2)
  IN IF tlv.depth = 1 /\ tlv.tag = "SEQUENCE" THEN tlv.value ELSE Failed

Dates(tlvs) ==
  LET i == SequenceAtDepth2(tlvs, 3)
  IN IF At(tlvs, i + 1).tag = "UTCTime" /\ At(tlvs, i + 2).tag = "UTCTime"
     THEN <<At(tlvs, i + 1).value, At(tlvs, i + 2).value>>
     ELSE Failed

extractPublicKey(tlvs) ==
  LET i == SequenceAtDepth2(tlvs, 5)
  IN IF At(tlvs, i + 2).value = "rsaEncryption" THEN At(tlvs, i + 4).value ELSE Failed

\* These two do not expect a criticality flag.
extractSubjectKeyIdentifier(tlvs) == At(tlvs, PlaceOf(tlvs, subjectKeyIdentifier) + 1).value
extractAuthorityKeyIdentifier(tlvs) == At(tlvs, PlaceOf(tlvs, authorityKeyIdentifier) + 1).value

Extension(tlvs, oid) == ContentAfterFlag(tlvs, PlaceOf(tlvs, oid))

-----------------------------------------------------------------------------
(* The encoding (external: RFC 5280 and X.690), from which the readers are *)
(* to get back what went in.  A shape lists the elements in the order of   *)
(* their headers, each with its depth.                                     *)

Inside(shape, i) ==
  {j \in i + 1 .. Len(shape) : \A k \in i + 1 .. j : shape[k].depth > shape[i].depth}

Encode(shape) ==
  [i \in DOMAIN shape |->
     [tag |-> shape[i].tag, value |-> shape[i].value, constructed |-> shape[i].constructed,
      length |-> IF shape[i].constructed
                 THEN MapThenSumSet(LAMBDA j : HEADER + shape[j].size, Inside(shape, i))
                 ELSE shape[i].size]]

Node(tag, depth) == [tag |-> tag, depth |-> depth, constructed |-> TRUE, value |-> "none", size |-> 0]
Leaf(tag, depth, value) ==
  [tag |-> tag, depth |-> depth, constructed |-> FALSE, value |-> value, size |-> 1]

Algorithm(depth, oid) ==
  <<Node("SEQUENCE", depth), Leaf("OID", depth + 1, oid), Leaf("NULL", depth + 1, "none")>>
Name == <<Node("SEQUENCE", 2), Node("SET", 3), Node("SEQUENCE", 4),
          Leaf("OID", 5, "commonName"), Leaf("UTF8String", 5, "name")>>
ExtensionShape(x) ==
  <<Node("SEQUENCE", 4), Leaf("OID", 5, x.oid)>>
  \o (IF x.critical THEN <<Leaf("BOOLEAN", 5, Failed)>> ELSE <<>>)
  \o <<Leaf("OCTET STRING", 5, x.content)>>

\* A certificate: tbs stands for all that is signed.
CertificateShape(c) ==
  <<Node("SEQUENCE", 0), [Node("SEQUENCE", 1) EXCEPT !.value = c.tbs],
    Node("[0]", 2), Leaf("INTEGER", 3, "v3"), Leaf("INTEGER", 2, "serial")>>
  \o Algorithm(2, "sha256WithRSA")
  \o Name
  \o <<Node("SEQUENCE", 2), Leaf("UTCTime", 3, c.notBefore), Leaf("UTCTime", 3, c.notAfter)>>
  \o Name
  \o <<Node("SEQUENCE", 2)>> \o Algorithm(3, "rsaEncryption") \o <<Leaf("BIT STRING", 3, c.key)>>
  \o <<Node("[3]", 2), Node("SEQUENCE", 3)>>
  \o FlattenSeq([i \in DOMAIN c.extensions |-> ExtensionShape(c.extensions[i])])
  \o Algorithm(1, "sha256WithRSA")
  \o <<Leaf("BIT STRING", 1, c.signature)>>

=============================================================================
