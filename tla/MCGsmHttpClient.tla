-------------------------- MODULE MCGsmHttpClient --------------------------
(* A small instance of GsmHttpClient.  Sizes are binary numbers of two     *)
(* digits; payload bytes may look like framing.                            *)
EXTENDS GsmHttpClient

MCDigits == ("0" :> 0) @@ ("1" :> 1)

Line(is, n, size) == [is |-> is, n |-> n, size |-> size]
Crlf == <<"cr", "lf">>
Framed(size, data) == size \o Crlf \o data \o Crlf
Final == Framed(<<"0">>, <<>>)

Encodings == {
    \* one chunk that holds a line end
    [is |-> "chunked", n |-> 0, sound |-> TRUE, body |-> <<"x", "lf">>,
     wire |-> Framed(<<"1", "0">>, <<"x", "lf">>) \o Final],
    \* two chunks, an extension, a trailer
    [is |-> "chunked", n |-> 0, sound |-> TRUE, body |-> <<"1", "x">>,
     wire |-> Framed(<<"1", "semi">>, <<"1">>) \o Framed(<<"0", "1">>, <<"x">>)
              \o <<"0">> \o Crlf \o <<"x">> \o Crlf \o Crlf],
    \* a size too large, one that is no number, none, and a wrong one
    [is |-> "chunked", n |-> 0, sound |-> FALSE, body |-> <<>>,
     wire |-> <<"1", "0", "1">> \o Crlf \o <<"x">>],
    [is |-> "chunked", n |-> 0, sound |-> FALSE, body |-> <<>>,
     wire |-> <<"x", "lf", "x">>],
    [is |-> "chunked", n |-> 0, sound |-> FALSE, body |-> <<>>,
     wire |-> <<"semi", "lf", "x">>],
    [is |-> "chunked", n |-> 0, sound |-> FALSE, body |-> <<"x">>,
     wire |-> <<"1">> \o Crlf \o <<"x", "x">>],
    \* a length; with bytes after it; with too few; with none
    [is |-> "length", n |-> 2, sound |-> TRUE, body |-> <<"x", "lf">>,
     wire |-> <<"x", "lf", "1">>],
    [is |-> "length", n |-> 3, sound |-> FALSE, body |-> <<"x", "1">>,
     wire |-> <<"x", "1">>],
    \* no size at all
    [is |-> "other", n |-> 0, sound |-> TRUE, body |-> <<"1", "cr">>,
     wire |-> <<"1", "cr">>]}

(* Another header line before the one that tells the framing.              *)
Reply(code, before, e) ==
    [lines |-> <<Line("status", code, 2)>> \o before
               \o <<Line(e.is, e.n, 2), Line("blank", 0, 1)>>,
     wire |-> e.wire, body |-> e.body, sound |-> e.sound]

(* A length next to chunks does not count.  A line of LineCap + 1 is read  *)
(* in pieces anyway, the last of which may look empty.                     *)
MCReplies ==
    LET sound(is) == {e \in Encodings : e.is = is /\ e.sound}
    IN {Reply(200, <<Line("length", 1, 2)>>, e) : e \in sound("chunked")}
       \cup {Reply(200, <<>>, e) : e \in Encodings \ sound("chunked")}
       \cup {Reply(200, <<Line("other", 0, 4)>>, e) : e \in sound("length")}
       \cup {Reply(404, <<>>, e) : e \in sound("other")}
=============================================================================
