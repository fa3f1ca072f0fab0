----------------------------- MODULE MCToolLoop -----------------------------
EXTENDS ToolLoop

One == Alias(1, "read")
Two == Alias(2, "find")
MCTools == {One, Two, Alias(2, "read")}

MCRetried == {Alias(2, "read")}

\* The name of a tool on two servers, written with capitals.
Read == [Short("read") EXCEPT !.raw = TRUE]

Listed(name, params) == Object(<<Row("tool_name", name, params)>>, <<>>)
Named(name) == Object(<<Row("name", name, "object")>>, <<>>)

Pair == Array(<<Listed(Read, "none"), Listed(Two, "object")>>, TRUE)
HalfReadable == Array(<<Listed(Alias(2, "read"), "object"), Listed(Two, "broken")>>, TRUE)
Nameless == Array(<<Listed(Blank, "none")>>, TRUE)
ByName == Array(<<Named(One), Named(Two)>>, TRUE)
Numbers == Array(<<>>, FALSE)
Nested == Object(<<>>, <<Array(<<Listed(WrongAlias(1), "scalar"), Listed(Direct, "none")>>, TRUE)>>)
Answer == Object(<<Row("name", Blank, "none"), Row("tool", Direct, "empty")>>, <<>>)

MCReplies ==
    { <<>>,
      <<Chunk(<<>>, TRUE), Chunk(<<Word>>, TRUE)>>,
      <<Chunk(<<Word, Open(<<Listed(Read, "none")>>)>>, FALSE), Chunk(<<Rest(Pair)>>, FALSE)>>,
      <<Chunk(<<Word, Json(HalfReadable)>>, FALSE)>>,
      <<Chunk(<<Word, Json(ByName)>>, FALSE)>>,
      <<Chunk(<<Space, Json(Nameless)>>, FALSE)>>,
      <<Chunk(<<Fence("json", FALSE, Numbers), Fence("", FALSE, Answer)>>, FALSE)>>,
      <<Chunk(<<Word, Json(Nested)>>, FALSE)>> }

=============================================================================
