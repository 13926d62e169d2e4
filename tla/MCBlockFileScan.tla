---- MODULE MCBlockFileScan ----
(* Instance of BlockFileScan: words of two bytes and a ring of five of which two
   can be rewound; block files of up to three records. *)
EXTENDS BlockFileScan

MCByte == 0..3
MCMagic == <<3, 1>>

(* A short block, a longer one, a missing one, the header of another network,
   the preallocated tail, and a block whose bytes end too early. *)
MCRecords == {
    <<3, 1, 0, 2, 1, 2>>, <<3, 1, 1, 0, 3, 3, 1, 3>>, <<3, 1, 2, 2>>,
    <<3, 2, 0, 1>>, <<0, 0, 0, 0>>, <<3, 1, 2, 0, 2, 3>> }

MCFiles == {<<>>} \cup MCRecords
    \cup {r \o s : r, s \in MCRecords}
    \cup {r \o s \o t : r, s, t \in MCRecords}

MCAnyFiles == {<<1, 2, 3, 1, 2, 3>>}
MCLimits == {NoLimit, 4}
====
