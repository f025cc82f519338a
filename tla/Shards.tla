------------------------------- MODULE Shards -------------------------------
(***************************************************************************)
(* jet-core digests: the shard that owns one.                               *)
(***************************************************************************)
EXTENDS Digests, Bitwise

\* The first bytes of a digest, little-endian, as Digest::shard reads them
Lead(d, n) == LET sum[i \in 0 .. n] == IF i = 0 THEN 0 ELSE sum[i - 1] + d[i] * 256 ^ (i - 1)
              IN  sum[n]

IsPowerOfTwo(n) == \E k \in 0 .. n : 2 ^ k = n

\* Mutant: the mask takes one bit too many.
ShardWideMask(head, n) == IF IsPowerOfTwo(n) THEN head & n ELSE head % n

\* Digest::shard
Shard(head, n) == IF IsPowerOfTwo(n) THEN head & (n - 1) ELSE head % n

\* One shard owns a digest: the mask, where there is one, takes the same one as
\* the division.
RoutesOnce(d, most) ==
    \A n \in 1 .. most : LET head == Lead(d, Bytes) IN Shard(head, n) = head % n
=============================================================================
