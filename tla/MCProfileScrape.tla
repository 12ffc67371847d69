--------------------------- MODULE MCProfileScrape ---------------------------
(* Small instances of ProfileScrape for TLC. *)
EXTENDS ProfileScrapeProps, TLC

CONSTANTS u1, u2    \* accounts

Setting(site, existing, protected, stored, labels) ==
    [site |-> site, existing |-> existing, protected |-> protected, stored |-> stored,
     labels |-> labels]

\* At Twitter a batch is about one account that exists and one that does not, with
\* a row from earlier, or about two that exist, one of them protected, and are new.
\* At Instagram both exist, and there is a row from earlier.
MCMixed == {Setting("twitter", {u1}, {}, {u1}, {u1, u2}),
            Setting("twitter", {u1, u2}, {u2}, {}, {u1}),
            Setting("instagram", {u1, u2}, {u2}, {u1}, {u1})}
=============================================================================
