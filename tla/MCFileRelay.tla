---------------------------- MODULE MCFileRelay -----------------------------
(* Instances of FileRelay for TLC.                                          *)
EXTENDS FileRelay

\* Two addresses, one of which begins with the other, as 10.0.0.1 and 10.0.0.10.
MCShort == <<"ip">>
MCLong  == <<"ip", "digit">>
MCZero  == <<"zero">>
MCHosts == <<MCLong, MCShort>>
MCAddresses == {MCLong, MCShort}

MCTexts ==
    {<< >>,
     <<"x", "LF", "y", "CR", "LF">>,
     <<"|", "LF", "LF", "y">>,
     <<"x", "y", "z", "LF", "x">>}

MCMessages ==
    {<<"x", "CR">>, <<"x", "LF", "y">>, <<"x", "x", "x", "x", "x", "x", "x", "x", "x", "x">>}

MCSources ==
    [kind : {"file"}, text : MCTexts, dest : {MCLong}]
        \cup [kind : {"file"}, text : {<<"NUL", "y", "LF", "x">>}, dest : {MCShort}]
        \cup [kind : {"file"}, text : {<< >>, <<"x">>}, dest : {MCZero}]
        \cup [kind : {"message"}, text : MCMessages, dest : {MCLong}]
        \cup [kind : {"missing"}, text : {<< >>}, dest : {MCLong}]
=============================================================================
