----------------------------- MODULE MCFileStore -----------------------------
(* Small instances of FileStore for TLC: two pictures whose files share     *)
(* some of their directories.                                               *)
EXTENDS FileStoreProps, TLC

CONSTANTS p1, p2, a, b      \* profiles, addresses

MCFilesOf == a :> <<"image a", "thumb a">> @@ b :> <<"image b", "thumb b">>
MCPathOf ==
    "image a" :> <<"1", "12">> @@ "thumb a" :> <<"1", "13">> @@
    "image b" :> <<"1", "13">> @@ "thumb b" :> <<"1", "12">>
MCSymmetry == Permutations(Jobs) \union Permutations({p1, p2})
=============================================================================
