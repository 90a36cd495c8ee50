------------------------------- MODULE Ingest -------------------------------
(***************************************************************************)
(* The ingest `Pipeline` for one image topic, fed by the ROS1 or the ROS2  *)
(* ingestor.  The image of a message is kept apart from its row: the row   *)
(* gets the topic's counter as its index, and the image goes to the end of *)
(* one of two lists.  Later stages take the index for the place in it.     *)
(***************************************************************************)
EXTENDS Naturals, Sequences

VARIABLES
  generation,          \* of ROS: "ROS1" or "ROS2"
  topic,               \* "raw", "compressed" or "compressedDepth"
  connections,         \* how often the topic was registered
  image_topic_id,      \* the counter
  rows,                \* what the topic's builders hold: [n, index]
  image_topic_data,    \* the images
  depth_topic_data     \* and what passes for depth

bag == <<generation, topic>>
ingest == <<bag, connections, image_topic_id, rows, image_topic_data, depth_topic_data>>

(* Rosbag1Ingestor leaves raw images in their rows. *)
IngestInit ==
  /\ generation \in {"ROS1", "ROS2"}
  /\ topic \in {"raw", "compressed", "compressedDepth"}
  /\ generation = "ROS1" => topic # "raw"
  /\ connections = 0 /\ image_topic_id = 0 /\ rows = <<>>
  /\ image_topic_data = <<>> /\ depth_topic_data = <<>>

(* is_visual_image_extension of the format that the message names *)
Visual(f) == f.image.format \in {"jpeg", "png", "other"}

AddImageInfo == image_topic_id' = 0

(* add_message_definition: builders are made for a new topic only *)
AddMessageDefinition == rows' = IF connections = 0 THEN <<>> ELSE rows

(* Rosbag1Ingestor, a connection record: each publisher has one. *)
Connection ==
  /\ generation = "ROS1"
  /\ AddImageInfo
  /\ AddMessageDefinition
  /\ connections' = connections + 1
  /\ UNCHANGED <<bag, image_topic_data, depth_topic_data>>

(* A raw image is stored as JPEG. *)
StoreRaw(f) ==
  /\ f.image.decodes
  /\ image_topic_data' = Append(image_topic_data, [f EXCEPT !.image.format = "jpeg"])
  /\ UNCHANGED depth_topic_data

StoreImage(f) ==
  /\ image_topic_data' = Append(image_topic_data, f)
  /\ UNCHANGED depth_topic_data

StoreDepth(f) ==
  /\ depth_topic_data' = Append(depth_topic_data, f)
  /\ UNCHANGED image_topic_data


AddImageData(f, id) ==
  /\ rows' = Append(rows, [n |-> f.n, index |-> id])
  /\ CASE topic = "raw" -> StoreRaw(f)
       [] topic = "compressed" /\ Visual(f) -> StoreImage(f)
       [] OTHER -> StoreDepth(f)
  /\ image_topic_id' = id + 1

Rosbag1Message(f) ==
  /\ generation = "ROS1" /\ connections > 0
  /\ AddImageData(f, image_topic_id)
  /\ UNCHANGED <<bag, connections>>

(* Rosbag2Ingestor registers a topic with its first message. *)
Rosbag2Message(f) ==
  /\ generation = "ROS2"
  /\ AddImageData(f, IF connections = 0 THEN 0 ELSE image_topic_id)
  /\ connections' = 1
  /\ UNCHANGED bag
=============================================================================
