------------------------- MODULE ExtractedBlobsClaims -------------------------
(***************************************************************************)
(* What a comment in the deletion of publications says of shared files and   *)
(* the code does not do.  TLC refutes it on ExtractedBlobs.                   *)
(***************************************************************************)
EXTENDS ExtractedBlobs, TLC

CONSTANTS z1, h1, png

Files == z1 :> <<png>>
Hashing == png :> h1

\* publicationService.js:1317: "Only delete from S3 when this was the last
\* publication holding the blob."  An object that goes is in the manifest of no
\* publication but those that are being deleted.
OnlyLastHolderDeletes ==
    [][\A k \in store \ store' : \A p \in Pub :
          k \in Ran(pub[p].manifest) => \E x \in Deleter : del[x].pub = p]_vars
=============================================================================
