----------------------------- MODULE Manifests ------------------------------
(***************************************************************************)
(* What is asked of tree manifests, of one input at a time: a tree that is  *)
(* stored and read back, or the bytes of a manifest that is read.           *)
(***************************************************************************)
EXTENDS TreeCodec

VARIABLE sample   \* the input: a record whose field "of" is its kind

NoSample == [of |-> "none"]
Is(kind) == sample.of = kind

\* A manifest as it was written, or with one byte changed or dropped
Damaged(b) ==
    {b} \cup {[b EXCEPT ![i] = v] : i \in DOMAIN b, v \in Byte}
        \cup {RemoveAt(b, i) : i \in DOMAIN b}

\* Every tree that ingest_dir builds comes back from the store as it was put:
\* names in byte order, lengths in their width (tree.rs, encode and decode).
TreesComeBack == Is("tree") => ComesBack(sample.tree)

\* However a manifest is damaged on disk, get_tree gives back the tree that was
\* stored or refuses it (store.rs, get_tree hashes what it decoded).
DamageFound == Is("tree") =>
    \A b \in Damaged(Encode(sample.tree)) : NeverAnother(sample.tree, b)

\* No manifest, whoever made it, decodes to a name that leaves its directory
\* (tree.rs, EntryName::new in decode).
DecodedNamesStayInside == Is("manifest") => StaysInside(sample.bytes)

\* Manifests are safe to store and to read back, whatever happens to them: trees
\* come back as they were put, damage is found, and no name leaves its directory.
ManifestsSafe == TreesComeBack /\ DamageFound /\ DecodedNamesStayInside

\* Only canonical bytes decode.
ManifestsCanonical == Is("manifest") => OnlyCanonical(sample.bytes)
=============================================================================
