--------------------------- MODULE MCRosbagImport ---------------------------
EXTENDS RosbagImport

Row(time, row, topic, kind) == [time |-> time, row |-> row, topic |-> topic, kind |-> kind]

(* Two files with equal times across them and out of file order. *)
MCBag == <<<<Row(1, 1, "imu", "mapped"), Row(3, 2, "odom", "damaged")>>,
           <<Row(1, 1, "odom", "unknown"), Row(2, 2, "imu", "mapped")>>>>
MCListed == <<{"imu", "odom", "blob"}, {"imu", "odom"}>>
(* One is older than what its database holds already. *)
MCAdded == {<<2, Row(4, 3, "imu", "mapped")>>, <<1, Row(2, 3, "imu", "damaged")>>}
MCDeclared == {-1, 4}
=============================================================================
