---------------------------- MODULE MCTranscoder ----------------------------
(* Transcoder on downloads of up to three videos. *)
EXTENDS Transcoder, TLC

Part(dir, stem, disc, ext) == [dir |-> dir, stem |-> stem, disc |-> disc, ext |-> ext]
File(dir, stem, ext) == Part(dir, stem, 0, ext)
Whole(v) == [videos |-> {v}, whole |-> TRUE]
Bad(v) == [videos |-> {v}, whole |-> FALSE]

\* Plain names; one of them bad; names that meet; meaningless names; discs.
MCDownloads == {
    File("top", <<"m">>, "avi") :> Whole("v1") @@ File("top", <<"n">>, "mp4") :> Whole("v2"),
    File("sub", <<"m">>, "mp4") :> Whole("v1") @@ File("top", <<"n">>, "avi") :> Bad("v2"),
    File("top", <<"m">>, "avi") :> Whole("v1") @@ File("top", <<"m">>, "mp4") :> Whole("v2"),
    File("top", <<"x">>, "avi") :> Whole("v1") @@ File("top", <<"y">>, "avi") :> Whole("v2"),
    File("top", <<"x">>, "avi") :> Whole("v1") @@ File("sub", <<"y">>, "avi") :> Whole("v2"),
    File("sub", <<"x">>, "avi") :> Whole("v1") @@ File("sub", <<"name">>, "avi") :> Whole("v2"),
    File("sub", <<"x">>, "mp4") :> Whole("v1") @@ Part("disc", <<"n">>, 2, "avi") :> Whole("v2"),
    Part("top", <<"m">>, 1, "avi") :> Whole("v1") @@
        Part("top", <<"m">>, 2, "avi") :> Whole("v2") @@
        File("top", <<"n">>, "mp4") :> Whole("v3"),
    Part("sub", <<"m">>, 1, "avi") :> Whole("v1") @@
        Part("sub", <<"m">>, 2, "avi") :> Whole("v2")}

\* A section with the options that are on, and the extensions not transcoded.
Series == {"flat"}
Films == {"tag"}
Installed == {
    <<Series, {}>>,
    <<Films \cup {"check"}, {}>>,
    <<Series \cup {"transcode", "concat", "check"}, {}>>,
    <<Series \cup {"transcode", "concat", "check", "duplicate"}, {}>>,
    <<Series \cup {"transcode", "concat"}, {"avi"}>>,
    <<Series \cup {"transcode", "check", "deleteFailed"}, {"mp4"}>>,
    <<Films \cup {"transcode", "concat", "check", "deleteFailed"}, {}>>,
    <<Films \cup {"transcode", "concat"}, {}>>,
    <<Films \cup {"transcode", "check", "noExtractFailed"}, {"avi"}>>,
    <<Films \cup {"transcode", "duplicate", "check"}, {"mp4"}>>,
    <<Series \cup {"transcode", "out", "concat", "check"}, {}>>,
    <<Series \cup {"transcode", "out", "concat", "duplicate", "processOutput"}, {}>>,
    <<Series \cup {"transcode", "out"}, {"mp4"}>>,
    <<Films \cup {"transcode", "out", "duplicate", "processOutput", "check"}, {}>>,
    <<Films \cup {"transcode", "out", "concat", "duplicate"}, {}>>,
    <<Films \cup {"transcode", "out"}, {}>>}

MCConfigs == {[flat |-> "flat" \in i[1], tag |-> "tag" \in i[1],
               transcode |-> "transcode" \in i[1], out |-> "out" \in i[1],
               processOutput |-> "processOutput" \in i[1],
               duplicate |-> "duplicate" \in i[1], concat |-> "concat" \in i[1],
               check |-> "check" \in i[1], noExtractFailed |-> "noExtractFailed" \in i[1],
               deleteFailed |-> "deleteFailed" \in i[1], ignore |-> i[2]] : i \in Installed}

\* VideosSurvive and SuccessIsWhole say nothing of attempts after these, where a name
\* could not be replaced or a disc is missing; IntactNotRejected does, but their
\* number is bounded here.
Followed == history.left \subseteq (IF conf.check THEN {"cut", "moved"} ELSE {"moved"})
=============================================================================
