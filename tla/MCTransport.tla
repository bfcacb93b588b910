---------------------------- MODULE MCTransport ----------------------------
(* The kinds of command the toolbox functions issue.                         *)
EXTENDS Transport

MCCommands == {ReadCmd(TOOLBOX_SCSI_GET_FILE, <<1, 2>>, 3),
               WriteCmd(TOOLBOX_SCSI_SEND_FILE_10, <<3>>, 3),
               PlainCmd(TOOLBOX_SCSI_SEND_FILE_END, <<>>),
               \* LIST_FILES of an empty directory: a buffer of no bytes
               ReadCmd(TOOLBOX_SCSI_LIST_FILES, <<>>, 0),
               \* toolbox_cmd_set_next_cd() leaves cdb_len at zero
               ScsiCmd(TOOLBOX_SCSI_SET_NEXT_CD, <<1>>, 0, NoBuffer, NoBuffer),
               ScsiCmd(INQUIRY, <<>>, 6, NoBuffer, Buffer(64))}

MCSenseLengths == {0, 8, 14, 18}
MCAll == Platforms
=============================================================================
