--------------------------- MODULE MCDescriptors ---------------------------
(* A directory with an entry of every type, one of them with a name of the *)
(* full length (two characters), and one of a type that does not exist.    *)
EXTENDS UserPrograms

Entry(fname, ftype, inode) ==
  [file_name |-> fname, file_type |-> ftype, inode_num |-> inode]

MCEntries == <<Entry(<<"dot">>, DIRECTORY_FT, 0), Entry(<<"r", "t">>, RTC_FT, 0),
               Entry(<<"a">>, FILE_FT, 1), Entry(<<"a", "b">>, FILE_FT, 2),
               Entry(<<"x">>, 3, 1)>>
MCFileLength == [i \in 0 .. 2 |-> <<0, 3, 1>>[i + 1]]

EntryNames   == {MCEntries[i].file_name : i \in 1 .. Len(MCEntries)}
MCdot    == <<"dot">>
MChelloo == <<"dot", "o">>
MCshel   == <<"r">>

MCNames      == EntryNames \cup {<<"b">>}
=============================================================================
