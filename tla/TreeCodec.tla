----------------------------- MODULE TreeCodec ------------------------------
(***************************************************************************)
(* jet-cas tree manifests: EntryName::new, Tree::encode and Tree::decode,   *)
(* and the check get_tree makes of what it decoded.                         *)
(*                                                                          *)
(* A byte is a number below Base. Every fixed-width integer is one byte     *)
(* wide and a digest DigestLen bytes, so a length is taken modulo Base      *)
(* where the code writes `as u16`. A tree is a function from names, which   *)
(* are byte strings, to nodes. The hash is injective: the digest of a tree  *)
(* is its encoding.                                                         *)
(***************************************************************************)
EXTENDS Naturals, Sequences, FiniteSets, SequencesExt

CONSTANTS
    Base,         \* number of byte values
    NameMax,      \* NAME_MAX, below Base as 255 is below 65536
    DigestLen

ASSUME CodecAssumption ==
    /\ Base \in Nat /\ NameMax \in Nat /\ DigestLen \in Nat
    /\ Base > 4 /\ NameMax < Base /\ DigestLen > 0

Byte == 0 .. Base - 1

Version == 1
TagFile == 1
TagDir == 2
TagSymlink == 3

\* The bytes a name or a target is told apart by
Nul == 0
Dot == 1
Slash == 2
Letter == 3
NotUtf8 == 4

FileNode(d, n, x) == [tag |-> TagFile, digest |-> d, size |-> n, executable |-> x]
DirNode(d)        == [tag |-> TagDir, digest |-> d]
SymlinkNode(t)    == [tag |-> TagSymlink, target |-> t]

Has(bytes, b) == \E i \in DOMAIN bytes : bytes[i] = b

(***************************************************************************)
(* EntryName::new, by the first check that fails                            *)
(***************************************************************************)

\* Mutant: dot names are let through.
NameErrorDots(name) ==
    IF name = <<>> \/ Len(name) > NameMax THEN "EmptyName"
    ELSE IF Has(name, Slash) \/ Has(name, Nul) THEN "NameHasSeparator"
    ELSE "none"

NameError(name) ==
    IF name = <<>> THEN "EmptyName"
    ELSE IF Len(name) > NameMax THEN "NameTooLong"
    ELSE IF name \in {<<Dot>>, <<Dot, Dot>>} THEN "DotName"
    ELSE IF Has(name, Slash) THEN "NameHasSeparator"
    ELSE IF Has(name, Nul) THEN "NameHasNul"
    ELSE "none"

(***************************************************************************)
(* Tree::encode: entries in the order of their names' bytes                 *)
(***************************************************************************)
Before(a, b) ==
    \/ Len(a) < Len(b) /\ SubSeq(b, 1, Len(a)) = a
    \/ \E i \in DOMAIN a \cap DOMAIN b :
         a[i] < b[i] /\ SubSeq(a, 1, i - 1) = SubSeq(b, 1, i - 1)

\* The i-th name is the one with i - 1 names before it
Names(tree) ==
    [i \in 1 .. Cardinality(DOMAIN tree) |->
       CHOOSE n \in DOMAIN tree : Cardinality({m \in DOMAIN tree : Before(m, n)}) = i - 1]

\* A length-prefixed field, its length cut to the width of the prefix
Field(bytes) == <<Len(bytes) % Base>> \o bytes

\* Mutant: the target runs to the end of the entry, without its length.
EncodeNodeBare(node) ==
    IF node.tag = TagFile
      THEN node.digest \o <<node.size, IF node.executable THEN 1 ELSE 0>>
    ELSE IF node.tag = TagDir THEN node.digest
    ELSE node.target

EncodeNode(node) ==
    IF node.tag = TagFile
      THEN node.digest \o <<node.size, IF node.executable THEN 1 ELSE 0>>
    ELSE IF node.tag = TagDir THEN node.digest
    ELSE Field(node.target)

EncodeEntry(name, node) == <<node.tag>> \o Field(name) \o EncodeNode(node)

Encode(tree) ==
    LET names == Names(tree)
        entries == [i \in DOMAIN names |-> EncodeEntry(names[i], tree[names[i]])]
    IN  <<Version, Len(names) % Base>> \o FlattenSeq(entries)

(***************************************************************************)
(* Tree::decode: a cursor over the bytes, every read checked by Reader::take *)
(***************************************************************************)
Err(why) == [error |-> why]
Ok(result) == "error" \notin DOMAIN result

Fits(b, at, n) == at + n - 1 <= Len(b)
Taken(b, at, n) == SubSeq(b, at, at + n - 1)

\* The payload after a name: a node and the cursor behind it
DecodeNode(b, at, tag) ==
    IF tag = TagFile THEN
        IF ~Fits(b, at, DigestLen + 2) THEN Err("Truncated")
        ELSE [node |-> FileNode(Taken(b, at, DigestLen), b[at + DigestLen],
                                b[at + DigestLen + 1] % 2 = 1),
              at |-> at + DigestLen + 2]
    ELSE IF tag = TagDir THEN
        IF ~Fits(b, at, DigestLen) THEN Err("Truncated")
        ELSE [node |-> DirNode(Taken(b, at, DigestLen)), at |-> at + DigestLen]
    ELSE IF tag = TagSymlink THEN
        IF ~Fits(b, at, 1) \/ ~Fits(b, at + 1, b[at]) THEN Err("Truncated")
        ELSE IF Has(Taken(b, at + 1, b[at]), NotUtf8) THEN Err("NameNotUtf8")
        ELSE IF b[at] = 0 THEN Err("EmptySymlinkTarget")
        ELSE [node |-> SymlinkNode(Taken(b, at + 1, b[at])), at |-> at + 1 + b[at]]
    ELSE Err("UnknownTag")

\* The tag and the name, and the cursor behind them
DecodeName(b, at) ==
    IF ~Fits(b, at, 2) \/ ~Fits(b, at + 2, b[at + 1]) THEN Err("Truncated")
    ELSE LET name == Taken(b, at + 2, b[at + 1])
         IN  IF Has(name, NotUtf8) THEN Err("NameNotUtf8")
             ELSE IF NameError(name) # "none" THEN Err(NameError(name))
             ELSE [tag |-> b[at], name |-> name, at |-> at + 2 + b[at + 1]]

\* One entry, after those that made sofar
DecodeEntry(b, sofar) ==
    LET head == DecodeName(b, sofar.at)
        body == DecodeNode(b, head.at, head.tag)
    IN  IF ~Ok(sofar) THEN sofar
        ELSE IF ~Ok(head) THEN head
        ELSE IF ~Ok(body) THEN body
        ELSE IF head.name \in DOMAIN sofar.tree THEN Err("DuplicateName")
        ELSE [at |-> body.at,
              tree |-> [n \in DOMAIN sofar.tree \cup {head.name} |->
                          IF n = head.name THEN body.node ELSE sofar.tree[n]]]

\* The loop over count entries, behind the header
DecodeEntries(b, count) ==
    LET after[k \in 0 .. count] ==
          IF k = 0 THEN [at |-> 3, tree |-> [n \in {} |-> <<>>]]
          ELSE DecodeEntry(b, after[k - 1])
    IN  after[count]

Decode(b) ==
    IF ~Fits(b, 1, 1) THEN Err("Truncated")
    ELSE IF b[1] # Version THEN Err("UnsupportedVersion")
    ELSE IF ~Fits(b, 2, 1) \/ b[2] > Len(b) - 2 THEN Err("Truncated")
    ELSE LET result == DecodeEntries(b, b[2])
         IN  IF ~Ok(result) THEN result
             ELSE IF result.at # Len(b) + 1 THEN Err("TrailingBytes")
             ELSE [tree |-> result.tree]

\* Mutant: what was decoded is not hashed again.
GetTreeTrusting(d, b) == Decode(b)

\* ObjectStore::get_tree, for an object of digest d whose bytes are b
GetTree(d, b) ==
    LET result == Decode(b)
    IN  IF ~Ok(result) THEN result
        ELSE IF Encode(result.tree) # d THEN Err("Corrupt")
        ELSE result

(***************************************************************************)
(* What is checked of them                                                  *)
(***************************************************************************)

NodeSet ==
    [tag : {TagFile}, digest : [1 .. DigestLen -> Byte], size : Byte, executable : BOOLEAN]
      \cup [tag : {TagDir}, digest : [1 .. DigestLen -> Byte]]
      \cup [tag : {TagSymlink}, target : Seq(Byte)]

\* A node that ingest_dir makes: the target of a link is text, is not empty and
\* fits its length field.
StorableNode(node) ==
    /\ node \in NodeSet
    /\ node.tag = TagSymlink => Len(node.target) \in 1 .. Base - 1 /\ ~Has(node.target, NotUtf8)

\* A tree that ingest_dir builds: its names are EntryNames, and their number fits
\* the header.
Storable(tree) ==
    /\ tree = [n \in DOMAIN tree |-> tree[n]]
    /\ IsFiniteSet(DOMAIN tree) /\ Cardinality(DOMAIN tree) < Base
    /\ \A n \in DOMAIN tree :
         n \in Seq(Byte) /\ ~Has(n, NotUtf8) /\ NameError(n) = "none" /\ StorableNode(tree[n])

\* A tree that can be stored comes back from its manifest as it was put.
ComesBack(tree) == Storable(tree) => GetTree(Encode(tree), Encode(tree)) = [tree |-> tree]

\* Whatever bytes are decoded, every name of the tree is one path component, so
\* that materialize stays inside its directory, and every node can be encoded
\* again ("invalid name cannot be represented", tree.rs:32-35).
StaysInside(b) ==
    Ok(Decode(b)) =>
        LET tree == Decode(b).tree
        IN  \A n \in DOMAIN tree :
              /\ n # <<>> /\ n # <<Dot>> /\ n # <<Dot, Dot>>
              /\ {n[i] : i \in DOMAIN n} \cap {Slash, Nul} = {}
              /\ tree[n].tag = TagSymlink => tree[n].target # <<>>

\* An object whose bytes have become b either is the tree it was stored as or is
\* refused; it is never materialized as another one (store.rs, get_tree).
NeverAnother(tree, b) ==
    LET got == GetTree(Encode(tree), b)
    IN  Ok(got) => got = [tree |-> tree]

\* Only the canonical bytes of a tree decode ("Decode from canonical binary
\* form", tree.rs:235): the decoder also takes entries out of order and flags
\* that it does not know.
OnlyCanonical(b) == Ok(Decode(b)) => Encode(Decode(b).tree) = b
=============================================================================
