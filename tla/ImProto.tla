------------------------------ MODULE ImProto ------------------------------
(***************************************************************************)
(* The message classes of web/app/lib/proto/im.js, the static protobufjs   *)
(* module the web client speaks to the gateway with (`pnpm proto:gen').    *)
(*                                                                         *)
(* Every class there is the same code around a list of fields: a           *)
(* constructor that starts the lists empty, a default value per field on   *)
(* the prototype, an encode that writes the fields in the order of the     *)
(* list and a decode with one case per field.  The list is what tells one  *)
(* class from another and it is all that is written down here; WireCodec   *)
(* has the code around it.  A field has the number and the name the class  *)
(* gives it, the type its writer and reader calls name, and a label:       *)
(*   "implicit"  the reader deletes the property on a default value        *)
(*   "explicit"  the property is set whatever the value                    *)
(*   "required"  written without a test, and decode throws without it      *)
(*   "list"      one record per element                                    *)
(*   "packed"    all elements in one record                                *)
(*   "oneof"     like explicit; setting it deletes the rest of its group   *)
(* A type that is the name of a class is a nested message.                 *)
(***************************************************************************)

Field(id, name, type, label, group) ==
    [id |-> id, name |-> name, type |-> type, label |-> label, group |-> group]

Implicit(id, name, type)     == Field(id, name, type, "implicit", "")
Explicit(id, name, type)     == Field(id, name, type, "explicit", "")
Required(id, name, type)     == Field(id, name, type, "required", "")
List(id, name, type)         == Field(id, name, type, "list", "")
Packed(id, name, type)       == Field(id, name, type, "packed", "")
OneOf(id, name, type, group) == Field(id, name, type, "oneof", group)

(* The writer method a type is written with decides its wire type.         *)
Varint == {"int32", "int64", "uint64", "bool"}
Fixed64 == {"double"}
Text == {"string", "bytes"}
Scalar == Varint \cup Fixed64 \cup Text

-----------------------------------------------------------------------------
(* api.im.v1 *)

RegisterRequest ==
    <<Implicit(1, "username", "string"), Implicit(2, "password", "string")>>

RegisterReply ==
    <<Implicit(1, "userId", "int64")>>

LoginRequest ==
    <<Implicit(1, "username", "string"), Implicit(2, "password", "string"),
      Implicit(3, "deviceId", "string")>>

LoginReply ==
    <<Implicit(1, "userId", "int64"), Implicit(2, "token", "string"),
      Implicit(3, "refreshToken", "string")>>

RefreshTokenRequest ==
    <<Implicit(1, "userId", "int64"), Implicit(2, "deviceId", "string"),
      Implicit(3, "refreshToken", "string")>>

LogoutRequest == << >>

LogoutReply ==
    <<Implicit(1, "success", "bool")>>

ListConversationsRequest ==
    <<Implicit(1, "limit", "int32"), Implicit(2, "offset", "int64")>>

Conversation ==
    <<Implicit(1, "topic", "string"), Implicit(2, "type", "string"),
      Implicit(3, "peerId", "int64"), Implicit(4, "peerUsername", "string"),
      Implicit(5, "lastMsgPreview", "string"),
      Implicit(6, "lastMsgAt", "int64"), Implicit(7, "lastSeq", "uint64"),
      Implicit(8, "lastReadSeq", "uint64"),
      Implicit(9, "unreadCount", "int32")>>

ListConversationsReply ==
    <<List(1, "conversations", "Conversation"), Implicit(2, "hasMore", "bool")>>

MarkConversationReadRequest ==
    <<Implicit(1, "topic", "string")>>

GetGatewayRequest ==
    <<Implicit(1, "userId", "int64")>>

GetGatewayReply ==
    <<Implicit(1, "gatewayUrl", "string"), List(2, "gatewayUrls", "string")>>

UploadFileRequest ==
    <<Implicit(1, "data", "bytes"), Implicit(2, "name", "string"),
      Implicit(3, "mime", "string")>>

UploadFileReply ==
    <<Implicit(1, "fileId", "string"), Implicit(2, "url", "string"),
      Implicit(3, "name", "string"), Implicit(4, "size", "int64"),
      Implicit(5, "mime", "string")>>

DownloadFileRequest ==
    <<Implicit(1, "fileId", "string")>>

DownloadFileReply ==
    <<Implicit(1, "data", "bytes"), Implicit(2, "name", "string"),
      Implicit(3, "mime", "string")>>

CreateGroupRequest ==
    <<Implicit(1, "name", "string"), Packed(2, "memberIds", "int64")>>

CreateGroupReply ==
    <<Implicit(1, "groupId", "string"), Implicit(2, "topic", "string")>>

Group ==
    <<Implicit(1, "groupId", "string"), Implicit(2, "topic", "string"),
      Implicit(3, "name", "string"), Implicit(4, "ownerId", "int64"),
      Implicit(5, "createdAt", "int64")>>

ListGroupsReply ==
    <<List(1, "groups", "Group")>>

GetGroupRequest ==
    <<Implicit(1, "groupId", "string")>>

AddGroupMemberRequest ==
    <<Implicit(1, "groupId", "string"), Implicit(2, "userId", "int64")>>

RemoveGroupMemberRequest ==
    <<Implicit(1, "groupId", "string"), Implicit(2, "userId", "int64")>>

ListGroupMembersRequest ==
    <<Implicit(1, "groupId", "string")>>

GroupMember ==
    <<Implicit(1, "userId", "int64"), Implicit(2, "username", "string")>>

ListGroupMembersReply ==
    <<List(1, "members", "GroupMember")>>

SendMessageRequest ==
    <<Implicit(1, "topic", "string"), Implicit(2, "msgType", "int32"),
      Implicit(3, "content", "bytes"), Implicit(4, "clientMsgId", "string"),
      Packed(5, "mentionedUserIds", "int64")>>

SendMessageReply ==
    <<Implicit(1, "clientMsgId", "string"), Implicit(2, "msgId", "int64"),
      Implicit(3, "timestamp", "int64"), Implicit(4, "topicSeq", "uint64")>>

MessagePush ==
    <<Implicit(1, "msgId", "int64"), Implicit(2, "topic", "string"),
      Implicit(3, "senderId", "int64"), Implicit(4, "msgType", "int32"),
      Implicit(5, "content", "bytes"), Implicit(6, "timestamp", "int64"),
      Implicit(7, "topicSeq", "uint64"),
      Implicit(8, "clientMsgId", "string"), Implicit(9, "recalled", "bool"),
      Packed(10, "mentionedUserIds", "int64")>>

UpstreamMessage ==
    <<Implicit(1, "senderId", "int64"), Implicit(2, "topic", "string"),
      Implicit(3, "msgType", "int32"), Implicit(4, "content", "bytes"),
      Implicit(5, "clientMsgId", "string"),
      Implicit(6, "timestamp", "int64"),
      Packed(7, "mentionedUserIds", "int64")>>

PullRequest ==
    <<Implicit(1, "topic", "string"), Implicit(2, "lastSeq", "uint64"),
      Implicit(3, "limit", "int32"), Implicit(4, "endSeq", "uint64")>>

PullMessage ==
    <<Implicit(1, "msgId", "int64"), Implicit(2, "topic", "string"),
      Implicit(3, "senderId", "int64"), Implicit(4, "msgType", "int32"),
      Implicit(5, "content", "bytes"), Implicit(6, "timestamp", "int64"),
      Implicit(7, "topicSeq", "uint64"),
      Implicit(8, "clientMsgId", "string"), Implicit(9, "recalled", "bool")>>

PullReply ==
    <<List(1, "messages", "PullMessage"), Implicit(2, "hasMore", "bool"),
      Implicit(3, "nextSeq", "uint64")>>

Packet ==
    <<Implicit(1, "cmd", "int32"), Implicit(2, "seq", "uint64"),
      OneOf(10, "authReq", "AuthRequest", "payload"),
      OneOf(11, "authResp", "AuthResponse", "payload"),
      OneOf(20, "sendReq", "SendMessageRequest", "payload"),
      OneOf(21, "sendReply", "SendMessageReply", "payload"),
      OneOf(30, "pullReq", "PullRequest", "payload"),
      OneOf(31, "pullReply", "PullReply", "payload"),
      OneOf(40, "ackReq", "AckRequest", "payload"),
      OneOf(50, "notify", "MessagePush", "payload"),
      OneOf(60, "readReceipt", "ReadReceipt", "payload"),
      OneOf(70, "deliveryReceipt", "DeliveryReceipt", "payload"),
      OneOf(80, "sendReceipt", "SendReceipt", "payload"),
      OneOf(90, "recallReq", "RecallRequest", "payload"),
      OneOf(99, "error", "ErrorResponse", "payload"),
      OneOf(100, "recallNotice", "RecallNotice", "payload")>>

AuthRequest ==
    <<Implicit(1, "token", "string"), Implicit(2, "deviceId", "string")>>

AuthResponse ==
    <<Implicit(1, "success", "bool"), Implicit(2, "userId", "int64"),
      Implicit(3, "deviceId", "string")>>

AckRequest ==
    <<Implicit(1, "msgId", "int64"), Implicit(2, "topic", "string"),
      Implicit(3, "topicSeq", "uint64")>>

ErrorResponse ==
    <<Implicit(1, "code", "int32"), Implicit(2, "message", "string"),
      Implicit(3, "retryable", "bool"), Implicit(4, "retryAfterMs", "uint64")>>

ReadReceipt ==
    <<Implicit(1, "topic", "string"), Implicit(2, "upToSeq", "uint64"),
      Implicit(3, "readerId", "int64")>>

DeliveryReceipt ==
    <<Implicit(1, "topic", "string"), Implicit(2, "topicSeq", "uint64"),
      Implicit(3, "msgId", "int64")>>

SendReceipt ==
    <<Implicit(1, "clientMsgId", "string"), Implicit(2, "msgId", "int64"),
      Implicit(3, "topic", "string"), Implicit(4, "topicSeq", "uint64"),
      Implicit(5, "timestamp", "int64")>>

RecallRequest ==
    <<Implicit(1, "topic", "string"), Implicit(2, "topicSeq", "uint64"),
      Implicit(3, "msgId", "int64")>>

RecallNotice ==
    <<Implicit(1, "topic", "string"), Implicit(2, "topicSeq", "uint64"),
      Implicit(3, "msgId", "int64"), Implicit(4, "senderId", "int64"),
      Implicit(5, "recalledAt", "int64")>>

PushToUserRequest ==
    <<Implicit(1, "userId", "int64"), Explicit(2, "message", "MessagePush")>>

PushToUserReply ==
    <<Implicit(1, "success", "bool"), Implicit(2, "deliveredCount", "int32")>>

BatchPushToUsersRequest ==
    <<Packed(1, "userIds", "int64"), Explicit(2, "message", "MessagePush")>>

BatchPushToUsersReply ==
    <<Implicit(1, "totalDelivered", "int32"),
      Packed(2, "failedUserIds", "int64")>>

PushReceiptToUserRequest ==
    <<Implicit(1, "userId", "int64"), Explicit(2, "receipt", "SendReceipt")>>

PushReceiptToUserReply ==
    <<Implicit(1, "success", "bool"), Implicit(2, "deliveredCount", "int32")>>

BatchPushReceiptToUsersRequest ==
    <<Packed(1, "userIds", "int64"), Explicit(2, "receipt", "SendReceipt")>>

BatchPushReceiptToUsersReply ==
    <<Implicit(1, "totalDelivered", "int32"),
      Packed(2, "failedUserIds", "int64")>>

ReceiptBatchItem ==
    <<Implicit(1, "userId", "int64"), Explicit(2, "receipt", "SendReceipt")>>

BatchPushReceiptsToUsersRequest ==
    <<List(1, "items", "ReceiptBatchItem")>>

BatchPushReceiptsToUsersReply ==
    <<Implicit(1, "totalDelivered", "int32"),
      List(2, "failedItems", "ReceiptBatchItem")>>

SearchUsersRequest ==
    <<Implicit(1, "username", "string"), Implicit(2, "limit", "int32")>>

SearchUsersReply ==
    <<List(1, "users", "User")>>

User ==
    <<Implicit(1, "userId", "int64"), Implicit(2, "username", "string")>>

GetUserPresenceRequest ==
    <<Implicit(1, "userId", "int64")>>

GetUserPresenceReply ==
    <<Implicit(1, "userId", "int64"), Implicit(2, "online", "bool")>>

-----------------------------------------------------------------------------
(* google.api: HTTP annotations, pulled in by the service files *)

Http ==
    <<List(1, "rules", "HttpRule"),
      Implicit(2, "fullyDecodeReservedExpansion", "bool")>>

HttpRule ==
    <<Implicit(1, "selector", "string"),
      OneOf(2, "get", "string", "pattern"),
      OneOf(3, "put", "string", "pattern"),
      OneOf(4, "post", "string", "pattern"),
      OneOf(5, "delete", "string", "pattern"),
      OneOf(6, "patch", "string", "pattern"), Implicit(7, "body", "string"),
      OneOf(8, "custom", "CustomHttpPattern", "pattern"),
      List(11, "additionalBindings", "HttpRule"),
      Implicit(12, "responseBody", "string")>>

CustomHttpPattern ==
    <<Implicit(1, "kind", "string"), Implicit(2, "path", "string")>>

-----------------------------------------------------------------------------
(* google.protobuf: descriptors, pulled in by the annotations *)

FileDescriptorSet ==
    <<List(1, "file", "FileDescriptorProto")>>

FileDescriptorProto ==
    <<Explicit(1, "name", "string"), Explicit(2, "package", "string"),
      List(3, "dependency", "string"),
      List(4, "messageType", "DescriptorProto"),
      List(5, "enumType", "EnumDescriptorProto"),
      List(6, "service", "ServiceDescriptorProto"),
      List(7, "extension", "FieldDescriptorProto"),
      Explicit(8, "options", "FileOptions"),
      Explicit(9, "sourceCodeInfo", "SourceCodeInfo"),
      List(10, "publicDependency", "int32"),
      List(11, "weakDependency", "int32"), Explicit(12, "syntax", "string")>>

DescriptorProto ==
    <<Explicit(1, "name", "string"),
      List(2, "field", "FieldDescriptorProto"),
      List(3, "nestedType", "DescriptorProto"),
      List(4, "enumType", "EnumDescriptorProto"),
      List(5, "extensionRange", "ExtensionRange"),
      List(6, "extension", "FieldDescriptorProto"),
      Explicit(7, "options", "MessageOptions"),
      List(8, "oneofDecl", "OneofDescriptorProto"),
      List(9, "reservedRange", "ReservedRange"),
      List(10, "reservedName", "string")>>

ExtensionRange ==
    <<Explicit(1, "start", "int32"), Explicit(2, "end", "int32"),
      Explicit(3, "options", "ExtensionRangeOptions")>>

ReservedRange ==
    <<Explicit(1, "start", "int32"), Explicit(2, "end", "int32")>>

ExtensionRangeOptions ==
    <<List(999, "uninterpretedOption", "UninterpretedOption")>>

FieldDescriptorProto ==
    <<Explicit(1, "name", "string"), Explicit(2, "extendee", "string"),
      Explicit(3, "number", "int32"), Explicit(4, "label", "int32"),
      Explicit(5, "type", "int32"), Explicit(6, "typeName", "string"),
      Explicit(7, "defaultValue", "string"),
      Explicit(8, "options", "FieldOptions"),
      Explicit(9, "oneofIndex", "int32"), Explicit(10, "jsonName", "string"),
      Explicit(17, "proto3Optional", "bool")>>

OneofDescriptorProto ==
    <<Explicit(1, "name", "string"), Explicit(2, "options", "OneofOptions")>>

EnumDescriptorProto ==
    <<Explicit(1, "name", "string"),
      List(2, "value", "EnumValueDescriptorProto"),
      Explicit(3, "options", "EnumOptions"),
      List(4, "reservedRange", "EnumReservedRange"),
      List(5, "reservedName", "string")>>

EnumReservedRange ==
    <<Explicit(1, "start", "int32"), Explicit(2, "end", "int32")>>

EnumValueDescriptorProto ==
    <<Explicit(1, "name", "string"), Explicit(2, "number", "int32"),
      Explicit(3, "options", "EnumValueOptions")>>

ServiceDescriptorProto ==
    <<Explicit(1, "name", "string"),
      List(2, "method", "MethodDescriptorProto"),
      Explicit(3, "options", "ServiceOptions")>>

MethodDescriptorProto ==
    <<Explicit(1, "name", "string"), Explicit(2, "inputType", "string"),
      Explicit(3, "outputType", "string"),
      Explicit(4, "options", "MethodOptions"),
      Explicit(5, "clientStreaming", "bool"),
      Explicit(6, "serverStreaming", "bool")>>

FileOptions ==
    <<Explicit(1, "javaPackage", "string"),
      Explicit(8, "javaOuterClassname", "string"),
      Explicit(9, "optimizeFor", "int32"),
      Explicit(10, "javaMultipleFiles", "bool"),
      Explicit(11, "goPackage", "string"),
      Explicit(16, "ccGenericServices", "bool"),
      Explicit(17, "javaGenericServices", "bool"),
      Explicit(18, "pyGenericServices", "bool"),
      Explicit(20, "javaGenerateEqualsAndHash", "bool"),
      Explicit(23, "deprecated", "bool"),
      Explicit(27, "javaStringCheckUtf8", "bool"),
      Explicit(31, "ccEnableArenas", "bool"),
      Explicit(36, "objcClassPrefix", "string"),
      Explicit(37, "csharpNamespace", "string"),
      Explicit(39, "swiftPrefix", "string"),
      Explicit(40, "phpClassPrefix", "string"),
      Explicit(41, "phpNamespace", "string"),
      Explicit(42, "phpGenericServices", "bool"),
      Explicit(44, "phpMetadataNamespace", "string"),
      Explicit(45, "rubyPackage", "string"),
      List(999, "uninterpretedOption", "UninterpretedOption")>>

MessageOptions ==
    <<Explicit(1, "messageSetWireFormat", "bool"),
      Explicit(2, "noStandardDescriptorAccessor", "bool"),
      Explicit(3, "deprecated", "bool"), Explicit(7, "mapEntry", "bool"),
      List(999, "uninterpretedOption", "UninterpretedOption")>>

FieldOptions ==
    <<Explicit(1, "ctype", "int32"), Explicit(2, "packed", "bool"),
      Explicit(3, "deprecated", "bool"), Explicit(5, "lazy", "bool"),
      Explicit(6, "jstype", "int32"), Explicit(10, "weak", "bool"),
      Explicit(15, "unverifiedLazy", "bool"),
      List(999, "uninterpretedOption", "UninterpretedOption")>>

OneofOptions ==
    <<List(999, "uninterpretedOption", "UninterpretedOption")>>

EnumOptions ==
    <<Explicit(2, "allowAlias", "bool"), Explicit(3, "deprecated", "bool"),
      List(999, "uninterpretedOption", "UninterpretedOption")>>

EnumValueOptions ==
    <<Explicit(1, "deprecated", "bool"),
      List(999, "uninterpretedOption", "UninterpretedOption")>>

ServiceOptions ==
    <<Explicit(33, "deprecated", "bool"),
      List(999, "uninterpretedOption", "UninterpretedOption")>>

MethodOptions ==
    <<Explicit(33, "deprecated", "bool"),
      Explicit(34, "idempotencyLevel", "int32"),
      List(999, "uninterpretedOption", "UninterpretedOption"),
      Explicit(72295728, ".google.api.http", "HttpRule")>>

UninterpretedOption ==
    <<List(2, "name", "NamePart"), Explicit(3, "identifierValue", "string"),
      Explicit(4, "positiveIntValue", "uint64"),
      Explicit(5, "negativeIntValue", "int64"),
      Explicit(6, "doubleValue", "double"),
      Explicit(7, "stringValue", "bytes"),
      Explicit(8, "aggregateValue", "string")>>

NamePart ==
    <<Required(1, "namePart", "string"), Required(2, "isExtension", "bool")>>

SourceCodeInfo ==
    <<List(1, "location", "Location")>>

Location ==
    <<Packed(1, "path", "int32"), Packed(2, "span", "int32"),
      Explicit(3, "leadingComments", "string"),
      Explicit(4, "trailingComments", "string"),
      List(6, "leadingDetachedComments", "string")>>

GeneratedCodeInfo ==
    <<List(1, "annotation", "Annotation")>>

Annotation ==
    <<Packed(1, "path", "int32"), Explicit(2, "sourceFile", "string"),
      Explicit(3, "begin", "int32"), Explicit(4, "end", "int32")>>

Empty == << >>

-----------------------------------------------------------------------------
(* The classes by name, as $root.<package>.<class> finds them.             *)
Schema ==
    [RegisterRequest |-> RegisterRequest, RegisterReply |-> RegisterReply,
     LoginRequest |-> LoginRequest, LoginReply |-> LoginReply,
     RefreshTokenRequest |-> RefreshTokenRequest,
     LogoutRequest |-> LogoutRequest, LogoutReply |-> LogoutReply,
     ListConversationsRequest |-> ListConversationsRequest,
     Conversation |-> Conversation,
     ListConversationsReply |-> ListConversationsReply,
     MarkConversationReadRequest |-> MarkConversationReadRequest,
     GetGatewayRequest |-> GetGatewayRequest,
     GetGatewayReply |-> GetGatewayReply,
     UploadFileRequest |-> UploadFileRequest,
     UploadFileReply |-> UploadFileReply,
     DownloadFileRequest |-> DownloadFileRequest,
     DownloadFileReply |-> DownloadFileReply,
     CreateGroupRequest |-> CreateGroupRequest,
     CreateGroupReply |-> CreateGroupReply, Group |-> Group,
     ListGroupsReply |-> ListGroupsReply, GetGroupRequest |-> GetGroupRequest,
     AddGroupMemberRequest |-> AddGroupMemberRequest,
     RemoveGroupMemberRequest |-> RemoveGroupMemberRequest,
     ListGroupMembersRequest |-> ListGroupMembersRequest,
     GroupMember |-> GroupMember,
     ListGroupMembersReply |-> ListGroupMembersReply,
     SendMessageRequest |-> SendMessageRequest,
     SendMessageReply |-> SendMessageReply, MessagePush |-> MessagePush,
     UpstreamMessage |-> UpstreamMessage, PullRequest |-> PullRequest,
     PullMessage |-> PullMessage, PullReply |-> PullReply, Packet |-> Packet,
     AuthRequest |-> AuthRequest, AuthResponse |-> AuthResponse,
     AckRequest |-> AckRequest, ErrorResponse |-> ErrorResponse,
     ReadReceipt |-> ReadReceipt, DeliveryReceipt |-> DeliveryReceipt,
     SendReceipt |-> SendReceipt, RecallRequest |-> RecallRequest,
     RecallNotice |-> RecallNotice, PushToUserRequest |-> PushToUserRequest,
     PushToUserReply |-> PushToUserReply,
     BatchPushToUsersRequest |-> BatchPushToUsersRequest,
     BatchPushToUsersReply |-> BatchPushToUsersReply,
     PushReceiptToUserRequest |-> PushReceiptToUserRequest,
     PushReceiptToUserReply |-> PushReceiptToUserReply,
     BatchPushReceiptToUsersRequest |-> BatchPushReceiptToUsersRequest,
     BatchPushReceiptToUsersReply |-> BatchPushReceiptToUsersReply,
     ReceiptBatchItem |-> ReceiptBatchItem,
     BatchPushReceiptsToUsersRequest |-> BatchPushReceiptsToUsersRequest,
     BatchPushReceiptsToUsersReply |-> BatchPushReceiptsToUsersReply,
     SearchUsersRequest |-> SearchUsersRequest,
     SearchUsersReply |-> SearchUsersReply, User |-> User,
     GetUserPresenceRequest |-> GetUserPresenceRequest,
     GetUserPresenceReply |-> GetUserPresenceReply, Http |-> Http,
     HttpRule |-> HttpRule, CustomHttpPattern |-> CustomHttpPattern,
     FileDescriptorSet |-> FileDescriptorSet,
     FileDescriptorProto |-> FileDescriptorProto,
     DescriptorProto |-> DescriptorProto, ExtensionRange |-> ExtensionRange,
     ReservedRange |-> ReservedRange,
     ExtensionRangeOptions |-> ExtensionRangeOptions,
     FieldDescriptorProto |-> FieldDescriptorProto,
     OneofDescriptorProto |-> OneofDescriptorProto,
     EnumDescriptorProto |-> EnumDescriptorProto,
     EnumReservedRange |-> EnumReservedRange,
     EnumValueDescriptorProto |-> EnumValueDescriptorProto,
     ServiceDescriptorProto |-> ServiceDescriptorProto,
     MethodDescriptorProto |-> MethodDescriptorProto,
     FileOptions |-> FileOptions, MessageOptions |-> MessageOptions,
     FieldOptions |-> FieldOptions, OneofOptions |-> OneofOptions,
     EnumOptions |-> EnumOptions, EnumValueOptions |-> EnumValueOptions,
     ServiceOptions |-> ServiceOptions, MethodOptions |-> MethodOptions,
     UninterpretedOption |-> UninterpretedOption, NamePart |-> NamePart,
     SourceCodeInfo |-> SourceCodeInfo, Location |-> Location,
     GeneratedCodeInfo |-> GeneratedCodeInfo, Annotation |-> Annotation,
     Empty |-> Empty]

Classes == DOMAIN Schema

(* The client sends and receives Packets only.                             *)
Command ==
    [CMD_UNKNOWN |-> 0, CMD_HEARTBEAT |-> 1, CMD_AUTH |-> 2, CMD_PUBLISH |-> 3,
     CMD_ACK |-> 4, CMD_PULL |-> 5, CMD_NOTIFY |-> 6, CMD_READ_RECEIPT |-> 7,
     CMD_DELIVERY_RECEIPT |-> 8, CMD_SEND_RECEIPT |-> 9, CMD_RECALL |-> 10]

=============================================================================
