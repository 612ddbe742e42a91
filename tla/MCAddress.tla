----------------------------- MODULE MCAddress ------------------------------
(***************************************************************************)
(* The keys of src/unit-tests/test_address.c, with bytes of their real     *)
(* width and real lengths.                                                 *)
(***************************************************************************)
EXTENDS Address

Key1 ==
    <<33, 235, 12, 66, 112, 18, 139, 22, 201, 60, 95, 13, 172, 72, 213, 96,
      81, 166, 35, 125, 174, 153, 123, 88, 145, 38, 149, 5, 40, 24, 227, 72>>
Key2 ==
    <<243, 128, 49, 246, 28, 162, 61, 112, 132, 79, 99, 164, 119, 208, 127, 11,
      44, 45, 236, 171, 144, 124, 46, 9, 110, 84, 139, 14, 8, 114, 28, 121>>
Key3 ==
    <<213, 253, 199, 173, 17, 166, 93, 11, 190, 120, 130, 252, 61, 188, 145, 181,
      134, 29, 24, 45, 204, 231, 159, 124, 27, 229, 191, 211, 10, 103, 124, 214>>
Key4 ==
    <<227, 16, 13, 133, 239, 174, 147, 224, 194, 252, 101, 75, 47, 12, 51, 88,
      79, 33, 58, 63, 223, 253, 2, 60, 130, 18, 119, 178, 23, 137, 224, 100>>

MCXs == {Key1, Key2, Key3, Key4}
MCYs == {129}
MCParities == {2, 3}
AnyParities == {2, 3, 4, 255}
MCSlips == {0, 16}

\* The scripts of src/unit-tests and their addresses, which other programs
\* computed.
Published ==
    {<<<<32>> \o Key1 \o <<OP_CHECKSIG>>,
       "kaspa:qqs7krzzwqfgk9kf830smtzg64s9rf3r0khfj76cjynf2pfgrr35saatu88xq">>,
     <<<<OP_BLAKE2B, 32>> \o Key2 \o <<OP_EQUAL>>,
       "kaspa:precqv0krj3r6uyyfa36ga7s0u9jct0v4wg8ctsfde2gkrsgwgw8jgxfzfc98">>,
     <<<<33, 2>> \o Key3 \o <<OP_CHECKSIGECDSA>>,
       "kaspa:qypdtlw845g6vhgtheug9lpahjgmtpsarqkueeul0sd7t07npfnhe4s7fd82n0v">>,
     <<<<33, 3>> \o Key4 \o <<OP_CHECKSIGECDSA>>,
       "kaspa:qyp7xyqdshh6aylqct7x2je0pse4snep8glallgz8jppyaajz7y7qeq4x79fq4z">>}

Text(string) == [k \in 1 .. Len(string) |-> SubSeq(string, k, k)]

\* The device shows those addresses, letter for letter (test_address.c:47-107,
\* test_tx_utils.c:62-105): prefix, separator and checksum are the ones the
\* rest of the world uses.
ShowsPublishedAddresses ==
    subject.kind # "nothing" =>
        \A p \in Published : SubjectScript = p[1] => g_address = Text(p[2])
=============================================================================
