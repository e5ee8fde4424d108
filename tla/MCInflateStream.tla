-------------------------- MODULE MCInflateStream ---------------------------
(***************************************************************************)
(* An instance of InflateStream for TLC: a window of 4 bytes, matches of   *)
(* up to 5, and streams of every kind of block, header and fault, with     *)
(* codes and extra bits as wide as they may be.                            *)
(***************************************************************************)
EXTENDS InflateFormat

F(mode, width, says) == <<[mode |-> mode, width |-> width, says |-> says, wrong |-> FALSE, at |-> 0]>>

\* The fields one after the other; some begin with a whole byte.
Placed(fields) ==
  LET at[i \in DOMAIN fields] ==
        LET end == at[i - 1] + fields[i - 1].width
        IN  IF i = 1 THEN 0
            ELSE IF fields[i].mode \in {"STORED", "CHECK"} THEN 8 * ((end + 7) \div 8) ELSE end
  IN  [i \in DOMAIN fields |-> [fields[i] EXCEPT !.at = at[i]]]

\* Literals and matches; blocks.
L(width, c) == F("LEN", width, [op |-> "literal", val |-> c, extra |-> 0])
Base(mode, width, val, extra, ext) ==
  F(mode, width, [op |-> "base", val |-> IF extra = 0 THEN val ELSE val - 1, extra |-> extra])
    \o IF extra = 0 THEN <<>> ELSE F(ext, extra, 1)
M(width, len, extra, dwidth, dist, dextra) ==
  Base("LEN", width, len, extra, "LENEXT") \o Base("DIST", dwidth, dist, dextra, "DISTEXT")
End(width) == F("LEN", width, [op |-> "end", val |-> 0, extra |-> 0])
Type(last, type) == F("TYPE", 3, [last |-> last, type |-> type])
Stored(last, bytes) ==
  Type(last, "stored") \o F("STORED", 32, Len(bytes))
    \o FlattenSeq([i \in DOMAIN bytes |-> F("COPY", 8, bytes[i])])
Table(symbols, codes, sets) ==
  F("TABLE", 14, [ncode |-> 4, lengths |-> 6, symbols |-> symbols, codes |-> codes, sets |-> sets])
    \o F("LENLENS", 3, 0) \o F("LENLENS", 3, 0) \o F("LENLENS", 3, 0) \o F("LENLENS", 3, 0)
Lens(width, copy) == F("CODELENS", width, [copy |-> copy])
Trailer(text) == F("CHECK", 32, text)

RECURSIVE TextOf(_, _)
TextOf(fields, text) ==
  LET f == fields[1]
      ext == IF Len(fields) > 1 /\ fields[2].mode = "LENEXT" THEN 1 ELSE 0
      d == fields[2 + ext]
      dext == IF Len(fields) > 2 + ext /\ fields[3 + ext].mode = "DISTEXT" THEN 1 ELSE 0
      from == Len(text) - (d.says.val + dext)
      grown[n \in 0 .. 5] == IF n = 0 THEN text ELSE Append(grown[n - 1], grown[n - 1][from + n])
  IN  IF fields = <<>> THEN text
      ELSE IF f.mode = "COPY" THEN TextOf(Tail(fields), Append(text, f.says))
      ELSE IF f.mode = "LEN" /\ f.says.op = "literal" THEN TextOf(Tail(fields), Append(text, f.says.val))
      ELSE IF f.mode = "LEN" /\ f.says.op = "base" THEN TextOf(Tail(fields), grown[f.says.val + ext])
      ELSE TextOf(Tail(fields), text)

Zlib(fields) ==
  LET text == TextOf(fields, <<>>)
  IN  [wrap |-> 3, text |-> text, fault |-> "none",
       fields |-> Placed(F("HEAD", 16, "zlib") \o fields \o Trailer(text))]
Gzip(header, fields) ==
  LET text == TextOf(fields, <<>>)
  IN  [wrap |-> 3, text |-> text, fault |-> "none",
       fields |-> Placed(F("HEAD", 16, "gzip") \o header \o fields \o Trailer(text)
                           \o F("LENGTH", 32, Len(text)))]
Raw(fields) ==
  [wrap |-> 0, text |-> TextOf(fields, <<>>), fault |-> "none", fields |-> Placed(fields)]

\* A stream whose nth field says something else.
Faulty(s, mode, n, says) ==
  LET nth == CHOOSE i \in DOMAIN s.fields :
               /\ s.fields[i].mode = mode
               /\ Cardinality({j \in 1 .. i : s.fields[j].mode = mode}) = n
  IN  [s EXCEPT !.fields[nth].says = says, !.fault = "broken"]

Coded ==
  Type(FALSE, "fixed") \o L(8, 1) \o L(9, 2) \o L(8, 3) \o M(7, 5, 0, 5, 3, 0) \o L(9, 4)
    \o M(8, 4, 1, 5, 4, 1) \o L(8, 5) \o M(7, 3, 0, 5, 1, 0) \o End(7)
Dynamic(last) ==
  Type(last, "dynamic") \o Table(TRUE, TRUE, TRUE) \o Lens(3, 1) \o Lens(9, 3) \o Lens(2, 2)
    \o L(15, 6) \o L(1, 7) \o M(15, 5, 5, 15, 2, 13) \o L(2, 8) \o M(1, 4, 0, 1, 3, 0) \o End(15)
Header ==
  F("FLAGS", 16, {"METHOD", "EXTRA", "NAME", "COMMENT", "HCRC"}) \o F("TIME", 32, 9) \o F("OS", 16, 9)
    \o F("EXLEN", 16, 2) \o F("EXTRA", 8, 7) \o F("EXTRA", 8, 0) \o F("NAME", 8, 5) \o F("NAME", 8, 0)
    \o F("COMMENT", 8, 0)
HeaderWithCrc ==
  Header \o F("HCRC", 16, <<"gzip">> \o [i \in DOMAIN Header |-> Header[i].says])

Mixed == Zlib(Coded \o Stored(FALSE, <<6, 7, 8, 1, 2>>) \o Dynamic(TRUE))
Small == Zlib(Stored(FALSE, <<1, 2, 3>>) \o Stored(FALSE, <<>>) \o Type(TRUE, "fixed")
                \o M(7, 4, 0, 5, 2, 0) \o L(8, 4) \o End(7))
Zipped == Gzip(HeaderWithCrc, Type(TRUE, "fixed") \o L(8, 1) \o L(8, 2) \o M(7, 5, 0, 5, 2, 0) \o End(7))
Plain == Gzip(F("FLAGS", 16, {"METHOD"}) \o F("TIME", 32, 9) \o F("OS", 16, 9), Stored(TRUE, <<1, 2>>))
Bare == Raw(Dynamic(FALSE) \o Type(TRUE, "fixed") \o M(7, 5, 0, 5, 4, 0) \o End(7))

\* The nth field of a mode says nothing valid.
Wrong(s, mode, n) ==
  LET nth == CHOOSE i \in DOMAIN s.fields :
               /\ s.fields[i].mode = mode
               /\ Cardinality({j \in 1 .. i : s.fields[j].mode = mode}) = n
  IN  [s EXCEPT !.fields[nth].wrong = TRUE, !.fault = "broken"]

Whole == <<Mixed, Small, Zipped, Plain, Bare>>
Broken ==
  <<Wrong(Small, "HEAD", 1), Wrong(Small, "STORED", 2), Wrong(Small, "LEN", 2),
    Faulty(Small, "TYPE", 3, [last |-> TRUE, type |-> "none"]),
    Faulty(Small, "DIST", 1, [op |-> "base", val |-> 4, extra |-> 0]),
    Faulty(Small, "CHECK", 1, <<1, 2, 3>>),
    Wrong(Zipped, "FLAGS", 1), Faulty(Zipped, "HCRC", 1, <<"gzip">>), Faulty(Zipped, "LENGTH", 1, 8),
    Faulty(Zipped, "DIST", 1, [op |-> "base", val |-> 3, extra |-> 0]),
    Wrong(Bare, "DIST", 1), Wrong(Bare, "CODELENS", 1), Faulty(Bare, "CODELENS", 3, [copy |-> 7]),
    Faulty(Bare, "TABLE", 1, [ncode |-> 4, lengths |-> 6, symbols |-> FALSE, codes |-> TRUE, sets |-> TRUE]),
    Faulty(Bare, "TABLE", 1, [ncode |-> 4, lengths |-> 6, symbols |-> TRUE, codes |-> FALSE, sets |-> TRUE]),
    Faulty(Bare, "TABLE", 1, [ncode |-> 4, lengths |-> 6, symbols |-> TRUE, codes |-> TRUE, sets |-> FALSE])>>
NeedsDictionary ==
  [Small EXCEPT !.fault = "dictionary",
                !.fields = Placed(F("HEAD", 16, "dictionary") \o F("DICTID", 32, 0) \o Tail(@))]

MCStreams == Whole \o Broken \o <<NeedsDictionary>>
=============================================================================
