---------------------------- MODULE MCHttpResponse ----------------------------
(***************************************************************************)
(* Messages for HttpResponse: what the programs build, every beginning of  *)
(* it, messages with chunks, with folded and repeated headers and without  *)
(* a content, and everything that differs from one of these in one symbol. *)
(***************************************************************************)
EXTENDS HttpResponse

Json2 == <<"{", "y">>
Json12 == <<"{", "y", "CR", "LF", "y", "CR", "LF", "CR", "LF", "y", "high", "y">>

Bodies == {Json2, Json12}

StatusLine == <<"H", "T", "T", "P", "/", "1", ".", "1", "SP", "2", "0", "0", "SP", "OK", "CR", "LF">>
LengthLine(value) == <<"content-length", ":", "SP">> \o value \o LineBreak
ChunkedLine == <<"Transfer-Encoding", ":", "SP", "chunked">> \o LineBreak

Templates ==
    { BuildsResponse(Json2),
      StatusLine \o <<"y", ":", "SP", "y">> \o LineBreak \o <<"SP", "y">> \o LineBreak \o LineBreak,
      StatusLine \o LengthLine(<<"-", "SP", "2">>) \o LengthLine(<<"SP", "1">>)
                 \o <<"TAB", "0">> \o LineBreak \o LineBreak \o Json12,
      StatusLine \o ChunkedLine \o LineBreak
                 \o <<"2", "SEMI", "y", "=", "y", "CR", "LF", "CR", "LF", "CR", "LF">>
                 \o <<"1", "CR", "LF", "y", "CR", "LF">>
                 \o <<"0", "CR", "LF", "y", "y", ":", "SP", "y", "CR", "LF", "CR", "LF">> }

Letters == {"H", "1", "0", "/", ":", "SEMI", "=", "SP", "TAB", "CR", "LF", "ctl", "y", "-", "high"}

Edited(msg) ==
    UNION { LET before == SubSeq(msg, 1, k - 1)
                behind == SubSeq(msg, k + 1, Len(msg))
            IN  {before \o behind}
                \cup { before \o <<s>> \o behind : s \in Letters }
                \cup { before \o <<s, msg[k]>> \o behind : s \in Letters }
            : k \in 1..Len(msg) }

Messages ==
    Templates \cup UNION { Edited(msg) : msg \in Templates }
    \cup UNION { { SubSeq(BuildsResponse(json), 1, n) : n \in 0..Len(BuildsResponse(json)) }
                : json \in Bodies }
=============================================================================
